---- MODULE Spec2Model ----
(***************************************************************************)
(* NoteDiscovery: the file-backed note store of backend/utils.py and the   *)
(* graph build of backend/main.py, over an explicit POSIX filesystem.      *)
(*                                                                         *)
(* Strings are sequences of one-character strings, so that the string      *)
(* operations of the code (endswith, with_suffix, split, resolve) are      *)
(* computed.  A location is the sequence of names from "/" down to a       *)
(* node; the filesystem is a function from the existing locations to       *)
(* nodes.  There are no symbolic links: no operation creates one.          *)
(***************************************************************************)
EXTENDS Integers, Sequences, FiniteSets, TLC

VARIABLES fs, last, th

vars == <<fs, last, th>>

----------------------------------------------------------------------------
(* Bounds of the model *)

\* largest number of nodes (directories and files) the filesystem may hold
MaxNodes == 6

----------------------------------------------------------------------------
(* Strings *)

DotDot == <<".", ".">>
MdSuffix == <<".", "m", "d">>
AttachmentsName == <<"_", "a", "t", "t", "a", "c", "h", "m", "e", "n", "t", "s">>
CR == "\r"
LF == "\n"

\* str.endswith
endswith(s, suf) ==
    /\ Len(suf) <= Len(s)
    /\ SubSeq(s, Len(s) - Len(suf) + 1, Len(s)) = suf

\* str.startswith
startswith(s, pre) ==
    /\ Len(pre) <= Len(s)
    /\ SubSeq(s, 1, Len(pre)) = pre

\* str.split(sep) for a one-character separator
RECURSIVE split(_, _)
split(s, sep) ==
    IF \A i \in 1..Len(s) : s[i] # sep
    THEN <<s>>
    ELSE LET i == CHOOSE k \in 1..Len(s) :
                    s[k] = sep /\ \A j \in 1..(k - 1) : s[j] # sep
         IN  <<SubSeq(s, 1, i - 1)>> \o split(SubSeq(s, i + 1, Len(s)), sep)

\* str.rfind('.'), 1-based; 0 when there is no dot
rfindDot(s) ==
    IF \A i \in 1..Len(s) : s[i] # "."
    THEN 0
    ELSE CHOOSE k \in 1..Len(s) :
             s[k] = "." /\ \A j \in (k + 1)..Len(s) : s[j] # "."

----------------------------------------------------------------------------
(* pathlib: pure paths.  A path object is [abs, parts]; every path the     *)
(* store builds is Path(notes_dir) / arg and notes_dir is absolute, so     *)
(* full paths are sequences of names below "/".                            *)

IsKept(c) == c # <<>> /\ c # <<".">>

\* the parts pathlib keeps of a path string: empty and "." segments go
PathParts(s) == SelectSeq(split(s, "/"), IsKept)

IsAbsolute(s) == Len(s) > 0 /\ s[1] = "/"

\* the configured storage root, config['storage']['notes_dir']
NotesDir == << <<"r">> >>

\* Path(notes_dir) / arg : an absolute arg replaces notes_dir
FullPath(arg) ==
    IF IsAbsolute(arg) THEN PathParts(arg) ELSE NotesDir \o PathParts(arg)

\* PurePath.parent of a full path
Parent(p) == IF p = <<>> THEN <<>> ELSE SubSeq(p, 1, Len(p) - 1)

\* PurePath.name
PathName(p) == IF p = <<>> THEN <<>> ELSE p[Len(p)]

\* PurePath.suffix of a name
NameSuffix(name) ==
    LET i == rfindDot(name)
    IN  IF 1 < i /\ i < Len(name) THEN SubSeq(name, i, Len(name)) ELSE <<>>

\* PurePath.stem of a name
NameStem(name) ==
    LET i == rfindDot(name)
    IN  IF 1 < i /\ i < Len(name) THEN SubSeq(name, 1, i - 1) ELSE name

\* PurePath.with_suffix('.md') on a full path with a name: the old suffix is replaced
with_suffix_md(p) == Append(Parent(p), NameStem(PathName(p)) \o MdSuffix)

\* Path.resolve() without symbolic links: ".." removes the component before it
RECURSIVE ResolveFrom(_, _)
ResolveFrom(acc, rest) ==
    IF rest = <<>> THEN acc
    ELSE ResolveFrom(IF Head(rest) = DotDot THEN Parent(acc)
                     ELSE Append(acc, Head(rest)), Tail(rest))

resolve(p) == ResolveFrom(<<>>, p)

IsPrefix(p, q) == Len(p) <= Len(q) /\ SubSeq(q, 1, Len(p)) = p

validate_path_security(p) == IsPrefix(resolve(NotesDir), resolve(p))

----------------------------------------------------------------------------
(* The filesystem *)

DirNode == [kind |-> "dir", data |-> <<>>]
FileNode(d) == [kind |-> "file", data |-> d]

\* path resolution of the kernel: every component but the last is looked up
\* in an existing directory
RECURSIVE WalkFrom(_, _, _)
WalkFrom(f, cur, rest) ==
    IF rest = <<>> THEN [err |-> "", loc |-> cur]
    ELSE IF cur \notin DOMAIN f THEN [err |-> "ENOENT", loc |-> cur]
    ELSE IF f[cur].kind # "dir" THEN [err |-> "ENOTDIR", loc |-> cur]
    ELSE WalkFrom(f, IF Head(rest) = DotDot THEN Parent(cur)
                     ELSE Append(cur, Head(rest)), Tail(rest))

Walk(f, p) == WalkFrom(f, <<>>, p)

\* os.stat: the error, or the location of the node
Stat(f, p) ==
    LET w == Walk(f, p)
    IN  IF w.err # "" THEN w
        ELSE IF w.loc \notin DOMAIN f THEN [err |-> "ENOENT", loc |-> w.loc]
        ELSE w

exists(f, p) == Stat(f, p).err = ""
is_dir(f, p) == LET s == Stat(f, p) IN s.err = "" /\ f[s.loc].kind = "dir"
is_file(f, p) == LET s == Stat(f, p) IN s.err = "" /\ f[s.loc].kind = "file"

\* the exception class Python raises for an errno
ExcOf(err) ==
    CASE err = "ENOENT" -> "FileNotFoundError"
      [] err = "EEXIST" -> "FileExistsError"
      [] err = "ENOTDIR" -> "NotADirectoryError"
      [] err = "EISDIR" -> "IsADirectoryError"
      [] OTHER -> "OSError"

Children(f, loc) == {l \in DOMAIN f : Len(l) = Len(loc) + 1 /\ IsPrefix(loc, l)}

RemoveTree(f, loc) ==
    LET keep == {l \in DOMAIN f : ~IsPrefix(loc, l)}
    IN  [l \in keep |-> f[l]]

\* os.mkdir
os_mkdir(f, p) ==
    LET w == Walk(f, p)
    IN  IF w.err # "" THEN [fs |-> f, err |-> w.err]
        ELSE IF w.loc \in DOMAIN f THEN [fs |-> f, err |-> "EEXIST"]
        ELSE [fs |-> f @@ (w.loc :> DirNode), err |-> ""]

\* Path.mkdir(parents=True, exist_ok=True)
RECURSIVE mkdir_parents(_, _)
mkdir_parents(f, p) ==
    LET r == os_mkdir(f, p)
    IN  IF r.err = "" THEN [fs |-> r.fs, exc |-> ""]
        ELSE IF r.err = "ENOENT" /\ p # <<>>
        THEN LET up == mkdir_parents(f, Parent(p))
             IN  IF up.exc # "" THEN up
                 ELSE LET r2 == os_mkdir(up.fs, p)
                      IN  IF r2.err = "" \/ (r2.err # "ENOENT" /\ is_dir(r2.fs, p))
                          THEN [fs |-> r2.fs, exc |-> ""]
                          ELSE [fs |-> r2.fs, exc |-> ExcOf(r2.err)]
        ELSE IF is_dir(f, p) THEN [fs |-> f, exc |-> ""]
        ELSE [fs |-> f, exc |-> ExcOf(r.err)]

\* os.rename on a POSIX system: an existing destination file is replaced
MoveTree(f, s, d) ==
    LET dom == {l \in DOMAIN f : ~IsPrefix(s, l) /\ ~IsPrefix(d, l)}
                 \cup {d \o SubSeq(l, Len(s) + 1, Len(l)) : l \in {x \in DOMAIN f : IsPrefix(s, x)}}
    IN  [l \in dom |-> IF IsPrefix(d, l)
                       THEN f[s \o SubSeq(l, Len(d) + 1, Len(l))]
                       ELSE f[l]]

os_rename(f, src, dst) ==
    LET ws == Stat(f, src)
        wd == Walk(f, dst)
    IN  IF ws.err # "" THEN [fs |-> f, err |-> ws.err]
        ELSE IF wd.err # "" THEN [fs |-> f, err |-> wd.err]
        ELSE IF src = <<>> \/ dst = <<>> \/ PathName(src) = DotDot \/ PathName(dst) = DotDot
        THEN [fs |-> f, err |-> "EBUSY"]
        ELSE IF ws.loc = wd.loc THEN [fs |-> f, err |-> ""]
        ELSE IF f[ws.loc].kind = "dir"
        THEN IF IsPrefix(ws.loc, wd.loc) THEN [fs |-> f, err |-> "EINVAL"]
             ELSE IF wd.loc \in DOMAIN f /\ f[wd.loc].kind = "file"
             THEN [fs |-> f, err |-> "ENOTDIR"]
             ELSE IF wd.loc \in DOMAIN f /\ Children(f, wd.loc) # {}
             THEN [fs |-> f, err |-> "ENOTEMPTY"]
             ELSE [fs |-> MoveTree(f, ws.loc, wd.loc), err |-> ""]
        ELSE IF IsPrefix(wd.loc, ws.loc) THEN [fs |-> f, err |-> "ENOTEMPTY"]
        ELSE IF wd.loc \in DOMAIN f /\ f[wd.loc].kind = "dir"
        THEN [fs |-> f, err |-> "EISDIR"]
        ELSE [fs |-> MoveTree(f, ws.loc, wd.loc), err |-> ""]

\* os.unlink
os_unlink(f, p) ==
    LET s == Stat(f, p)
    IN  IF s.err # "" THEN [fs |-> f, err |-> s.err]
        ELSE IF f[s.loc].kind = "dir" THEN [fs |-> f, err |-> "EISDIR"]
        ELSE [fs |-> RemoveTree(f, s.loc), err |-> ""]

\* open(p, 'w') followed by write(content) and close, as one step
open_write(f, p, content) ==
    LET w == Walk(f, p)
    IN  IF w.err # "" THEN [fs |-> f, err |-> w.err]
        ELSE IF w.loc \in DOMAIN f /\ f[w.loc].kind = "dir" THEN [fs |-> f, err |-> "EISDIR"]
        ELSE [fs |-> [l \in DOMAIN f \cup {w.loc} |->
                          IF l = w.loc THEN FileNode(content) ELSE f[l]],
              err |-> ""]

\* text-mode read with universal newlines: "\r\n" and "\r" become "\n"
RECURSIVE ReadText(_)
ReadText(d) ==
    IF d = <<>> THEN <<>>
    ELSE IF Head(d) = CR
    THEN IF Len(d) > 1 /\ d[2] = LF
         THEN <<LF>> \o ReadText(SubSeq(d, 3, Len(d)))
         ELSE <<LF>> \o ReadText(Tail(d))
    ELSE <<Head(d)>> \o ReadText(Tail(d))

\* shutil.rmtree: empties the directory, then removes it by its path
shutil_rmtree(f, p) ==
    LET loc == Stat(f, p).loc
        emptied == [l \in {x \in DOMAIN f : ~(IsPrefix(loc, x) /\ x # loc)} |-> f[l]]
        again == Stat(emptied, p)
    IN  IF again.err # "" THEN [fs |-> emptied, exc |-> ExcOf(again.err)]
        ELSE IF PathName(p) = DotDot \/ p = <<>> THEN [fs |-> emptied, exc |-> "OSError"]
        ELSE [fs |-> RemoveTree(emptied, loc), exc |-> ""]

\* shutil.move of a directory whose source was seen to exist
shutil_move(f, src, dst) ==
    LET real_dst == IF is_dir(f, dst) THEN Append(dst, PathName(src)) ELSE dst
    IN  IF is_dir(f, dst) /\ Stat(f, src).err = "" /\ Stat(f, src).loc = Stat(f, dst).loc
        THEN LET r == os_rename(f, src, dst)
             IN  [fs |-> r.fs, exc |-> IF r.err = "" THEN "" ELSE ExcOf(r.err)]
        ELSE IF is_dir(f, dst) /\ exists(f, real_dst)
        THEN [fs |-> f, exc |-> "shutil.Error"]
        ELSE LET r == os_rename(f, src, real_dst)
             IN  IF r.err = "" THEN [fs |-> r.fs, exc |-> ""]
                 ELSE IF is_dir(f, src)
                 THEN IF IsPrefix(resolve(src), resolve(dst))
                      THEN [fs |-> f, exc |-> "shutil.Error"]
                      ELSE IF exists(f, real_dst)
                      THEN [fs |-> f, exc |-> "FileExistsError"]
                      ELSE IF Walk(f, real_dst).err # ""
                      THEN [fs |-> f, exc |-> ExcOf(Walk(f, real_dst).err)]
                      ELSE [fs |-> MoveTree(f, Stat(f, src).loc, Walk(f, real_dst).loc),
                            exc |-> ""]
                 ELSE [fs |-> f, exc |-> ExcOf(Stat(f, src).err)]

----------------------------------------------------------------------------
(* Results: what a call hands back to its caller.  tag is "True", "False", *)
(* "None", "str" (val holds the string) or "raise" (exc names the          *)
(* exception); at is the source line of the return or of the raising       *)
(* statement.                                                              *)

Ret(tag, at) == [tag |-> tag, val |-> <<>>, exc |-> "", at |-> at]
RetStr(s, at) == [tag |-> "str", val |-> s, exc |-> "", at |-> at]
Raise(exc, at) == [tag |-> "raise", val |-> <<>>, exc |-> exc, at |-> at]

----------------------------------------------------------------------------
(* backend/utils.py *)

\* create_folder with mkdir(parents=True) and no exist_ok
create_folder_exclusive(f, folder_path) ==
    LET full_path == FullPath(folder_path)
    IN  IF ~validate_path_security(full_path)
        THEN [fs |-> f, res |-> Ret("False", 49)]
        ELSE IF exists(f, full_path)
        THEN [fs |-> f, res |-> Raise("FileExistsError", 51)]
        ELSE LET m == mkdir_parents(f, full_path)
             IN  IF m.exc # "" THEN [fs |-> m.fs, res |-> Raise(m.exc, 51)]
                 ELSE [fs |-> m.fs, res |-> Ret("True", 53)]

create_folder(f, folder_path) ==
    LET full_path == FullPath(folder_path)
    IN  IF ~validate_path_security(full_path)
        THEN [fs |-> f, res |-> Ret("False", 49)]
        ELSE LET m == mkdir_parents(f, full_path)
             IN  IF m.exc # "" THEN [fs |-> m.fs, res |-> Raise(m.exc, 51)]
                 ELSE [fs |-> m.fs, res |-> Ret("True", 53)]

\* move_note with the rename replaced by a copy that leaves the source
move_note_as_copy(f, old_path, new_path) ==
    LET old_full_path == FullPath(old_path)
        new_full_path == FullPath(new_path)
    IN  IF ~validate_path_security(old_full_path) \/ ~validate_path_security(new_full_path)
        THEN [fs |-> f, res |-> Ret("False", 79)]
        ELSE IF ~exists(f, old_full_path)
        THEN [fs |-> f, res |-> Ret("False", 82)]
        ELSE LET m == mkdir_parents(f, Parent(new_full_path))
             IN  IF m.exc # "" THEN [fs |-> m.fs, res |-> Raise(m.exc, 85)]
                 ELSE LET r == IF is_file(m.fs, old_full_path)
                               THEN open_write(m.fs, new_full_path,
                                               m.fs[Stat(m.fs, old_full_path).loc].data)
                               ELSE os_rename(m.fs, old_full_path, new_full_path)
                      IN  IF r.err # "" THEN [fs |-> r.fs, res |-> Raise(ExcOf(r.err), 88)]
                          ELSE [fs |-> r.fs, res |-> Ret("True", 92)]

move_note(f, old_path, new_path) ==
    LET old_full_path == FullPath(old_path)
        new_full_path == FullPath(new_path)
    IN  IF ~validate_path_security(old_full_path) \/ ~validate_path_security(new_full_path)
        THEN [fs |-> f, res |-> Ret("False", 79)]
        ELSE IF ~exists(f, old_full_path)
        THEN [fs |-> f, res |-> Ret("False", 82)]
        ELSE LET m == mkdir_parents(f, Parent(new_full_path))
             IN  IF m.exc # "" THEN [fs |-> m.fs, res |-> Raise(m.exc, 85)]
                 ELSE LET r == os_rename(m.fs, old_full_path, new_full_path)
                      IN  IF r.err # "" THEN [fs |-> r.fs, res |-> Raise(ExcOf(r.err), 88)]
                          ELSE [fs |-> r.fs, res |-> Ret("True", 92)]

\* move_folder without the check of lines 111-112
move_folder_unchecked(f, old_path, new_path) ==
    LET old_full_path == FullPath(old_path)
        new_full_path == FullPath(new_path)
    IN  IF ~validate_path_security(old_full_path) \/ ~validate_path_security(new_full_path)
        THEN [fs |-> f, res |-> Ret("False", 105)]
        ELSE IF ~exists(f, old_full_path) \/ ~is_dir(f, old_full_path)
        THEN [fs |-> f, res |-> Ret("False", 108)]
        ELSE LET m == mkdir_parents(f, Parent(new_full_path))
             IN  IF m.exc # "" THEN [fs |-> m.fs, res |-> Raise(m.exc, 115)]
                 ELSE LET r == shutil_move(m.fs, old_full_path, new_full_path)
                      IN  IF r.exc # "" THEN [fs |-> r.fs, res |-> Raise(r.exc, 118)]
                          ELSE [fs |-> r.fs, res |-> Ret("True", 122)]

move_folder(f, old_path, new_path) ==
    LET old_full_path == FullPath(old_path)
        new_full_path == FullPath(new_path)
    IN  IF ~validate_path_security(old_full_path) \/ ~validate_path_security(new_full_path)
        THEN [fs |-> f, res |-> Ret("False", 105)]
        ELSE IF ~exists(f, old_full_path) \/ ~is_dir(f, old_full_path)
        THEN [fs |-> f, res |-> Ret("False", 108)]
        ELSE IF exists(f, new_full_path)
        THEN [fs |-> f, res |-> Ret("False", 112)]
        ELSE LET m == mkdir_parents(f, Parent(new_full_path))
             IN  IF m.exc # "" THEN [fs |-> m.fs, res |-> Raise(m.exc, 115)]
                 ELSE LET r == shutil_move(m.fs, old_full_path, new_full_path)
                      IN  IF r.exc # "" THEN [fs |-> r.fs, res |-> Raise(r.exc, 118)]
                          ELSE [fs |-> r.fs, res |-> Ret("True", 122)]

rename_folder(f, old_path, new_path) == move_folder(f, old_path, new_path)

delete_folder(f, folder_path) ==
    LET full_path == FullPath(folder_path)
    IN  IF ~validate_path_security(full_path)
        THEN [fs |-> f, res |-> Ret("False", 138)]
        ELSE IF ~exists(f, full_path)
        THEN [fs |-> f, res |-> Ret("False", 142)]
        ELSE IF ~is_dir(f, full_path)
        THEN [fs |-> f, res |-> Ret("False", 146)]
        ELSE LET r == shutil_rmtree(f, full_path)
             IN  IF r.exc # "" THEN [fs |-> r.fs, res |-> Ret("False", 156)]
                 ELSE [fs |-> r.fs, res |-> Ret("True", 151)]

get_note_content(f, note_path) ==
    LET full_path == FullPath(note_path)
    IN  IF ~exists(f, full_path) \/ ~is_file(f, full_path)
        THEN [fs |-> f, res |-> Ret("None", 190)]
        ELSE IF ~validate_path_security(full_path)
        THEN [fs |-> f, res |-> Ret("None", 194)]
        ELSE [fs |-> f, res |-> RetStr(ReadText(f[Stat(f, full_path).loc].data), 197)]

save_note(f, note_path, content) ==
    LET joined == FullPath(note_path)
    IN  IF ~endswith(note_path, MdSuffix) /\ joined = <<>>
        THEN [fs |-> f, res |-> Raise("ValueError", 206)]
        ELSE LET full_path == IF ~endswith(note_path, MdSuffix)
                              THEN with_suffix_md(joined) ELSE joined
             IN  IF ~validate_path_security(full_path)
                 THEN [fs |-> f, res |-> Ret("False", 210)]
                 ELSE LET m == mkdir_parents(f, Parent(full_path))
                      IN  IF m.exc # "" THEN [fs |-> m.fs, res |-> Raise(m.exc, 213)]
                          ELSE LET w == open_write(m.fs, full_path, content)
                               IN  IF w.err # ""
                                   THEN [fs |-> w.fs, res |-> Raise(ExcOf(w.err), 215)]
                                   ELSE [fs |-> w.fs, res |-> Ret("True", 218)]

\* delete_note that also removes the folder of the note when it is left empty
delete_note_pruning(f, note_path) ==
    LET full_path == FullPath(note_path)
    IN  IF ~exists(f, full_path)
        THEN [fs |-> f, res |-> Ret("False", 226)]
        ELSE IF ~validate_path_security(full_path)
        THEN [fs |-> f, res |-> Ret("False", 230)]
        ELSE LET r == os_unlink(f, full_path)
                 dir == Parent(Stat(f, full_path).loc)
             IN  IF r.err # "" THEN [fs |-> r.fs, res |-> Raise(ExcOf(r.err), 232)]
                 ELSE IF dir # NotesDir /\ Children(r.fs, dir) = {}
                 THEN [fs |-> RemoveTree(r.fs, dir), res |-> Ret("True", 236)]
                 ELSE [fs |-> r.fs, res |-> Ret("True", 236)]

delete_note(f, note_path) ==
    LET full_path == FullPath(note_path)
    IN  IF ~exists(f, full_path)
        THEN [fs |-> f, res |-> Ret("False", 226)]
        ELSE IF ~validate_path_security(full_path)
        THEN [fs |-> f, res |-> Ret("False", 230)]
        ELSE LET r == os_unlink(f, full_path)
             IN  IF r.err # "" THEN [fs |-> r.fs, res |-> Raise(ExcOf(r.err), 232)]
                 ELSE [fs |-> r.fs, res |-> Ret("True", 236)]

\* the characters the pattern [^a-zA-Z0-9_-] leaves alone
SafeChars ==
    {"a", "b", "c", "d", "e", "f", "g", "h", "i", "j", "k", "l", "m",
     "n", "o", "p", "q", "r", "s", "t", "u", "v", "w", "x", "y", "z",
     "A", "B", "C", "D", "E", "F", "G", "H", "I", "J", "K", "L", "M",
     "N", "O", "P", "Q", "R", "S", "T", "U", "V", "W", "X", "Y", "Z",
     "0", "1", "2", "3", "4", "5", "6", "7", "8", "9", "_", "-"}

sanitize_filename(filename) ==
    LET i == rfindDot(filename)
        name == IF i = 0 THEN filename ELSE SubSeq(filename, 1, i - 1)
        ext == IF i = 0 THEN <<>> ELSE SubSeq(filename, i + 1, Len(filename))
        clean == [k \in 1..Len(name) |-> IF name[k] \in SafeChars THEN name[k] ELSE "_"]
    IN  IF ext # <<>> THEN clean \o <<".">> \o ext ELSE clean

get_attachment_dir(note_path) ==
    LET parts == PathParts(note_path)
    IN  IF note_path = <<>> THEN Append(NotesDir, AttachmentsName)
        ELSE IF ~IsAbsolute(note_path) /\ Len(parts) <= 1
        THEN Append(NotesDir, AttachmentsName)
        ELSE IF IsAbsolute(note_path) THEN Append(Parent(parts), AttachmentsName)
        ELSE Append(NotesDir \o Parent(parts), AttachmentsName)

\* '/'.join of the parts of a relative path
RECURSIVE as_posix(_)
as_posix(parts) ==
    IF parts = <<>> THEN <<".">>
    ELSE IF Len(parts) = 1 THEN parts[1]
    ELSE parts[1] \o <<"/">> \o as_posix(Tail(parts))

\* timestamp is datetime.now() in the format of line 366
save_uploaded_image(f, note_path, filename, file_data, timestamp) ==
    LET sanitized_name == sanitize_filename(filename)
        last_name == PathName(PathParts(sanitized_name))
        ext == NameSuffix(last_name)
        name_without_ext == NameStem(last_name)
        final_filename == name_without_ext \o <<"-">> \o timestamp \o ext
        attachments_dir == get_attachment_dir(note_path)
        m == mkdir_parents(f, attachments_dir)
        full_path == Append(attachments_dir, final_filename)
    IN  IF m.exc # "" THEN [fs |-> m.fs, res |-> Raise(m.exc, 373)]
        ELSE IF ~validate_path_security(full_path)
        THEN [fs |-> m.fs, res |-> Ret("None", 381)]
        ELSE LET w == open_write(m.fs, full_path, file_data)
             IN  IF w.err # "" THEN [fs |-> w.fs, res |-> Ret("None", 393)]
                 ELSE IF ~IsPrefix(NotesDir, full_path)
                 THEN [fs |-> w.fs, res |-> Ret("None", 393)]
                 ELSE [fs |-> w.fs,
                       res |-> RetStr(as_posix(SubSeq(full_path, Len(NotesDir) + 1,
                                                      Len(full_path))), 390)]

----------------------------------------------------------------------------
(* Inputs of the model *)

P_n_md == <<"n", ".", "m", "d">>
P_n == <<"n">>
P_n_v == <<"n", ".", "v">>
P_a == <<"a">>
P_a_n_md == <<"a", "/", "n", ".", "m", "d">>
P_a_b == <<"a", "/", "b">>
P_up_o_md == <<".", ".", "/", "o", ".", "m", "d">>
P_abs_o_md == <<"/", "o", ".", "m", "d">>
P_a_up_n_md == <<"a", "/", ".", ".", "/", "n", ".", "m", "d">>
P_empty == <<>>

\* the path arguments callers pass
PathArgs ==
    {P_n_md, P_n, P_a, P_a_n_md, P_a_b, P_up_o_md, P_abs_o_md,
     P_a_up_n_md, P_empty}

\* the paths notes are saved and read under: PathArgs and a name whose
\* suffix is not ".md"
NotePathArgs == PathArgs \cup {P_n_v}

\* note contents; the second holds a carriage return
Contents == {<<"A", "A">>, <<"B", CR, LF>>}

FileNames == {<<"x", ".", "p", "n", "g">>}
FileData == {<<"D">>}
Timestamps == {<<"1">>, <<"2">>}

\* a file outside the storage root that is there before the store runs
OutsideFile == << <<"o", ".", "m", "d">> >>
OutsideData == <<"S">>

----------------------------------------------------------------------------
(* The store called by one caller at a time *)

\* an open file: the node it was opened on, by location while the node is
\* linked (live), by its own data once the node was unlinked or replaced
NoFd == [open |-> FALSE, loc |-> <<>>, live |-> FALSE, data |-> <<>>]

\* the locals of a graph build that has not started
NoGraph ==
    [found |-> <<>>, modified |-> <<>>, notes |-> <<>>, i |-> 0, nodes |-> <<>>,
     edges |-> <<>>]

\* a call in flight: its position pc, its arguments, the path and the open
\* file it works on, the locals of a graph build (g) and its result; c0 and
\* d0 record what the two paths of a move read as when the move began
NewCall(op, args, pc) ==
    [pc |-> pc, op |-> op, args |-> args, path |-> <<>>, fd |-> NoFd,
     c0 |-> <<"None", <<>>>>, d0 |-> <<"None", <<>>>>, g |-> NoGraph,
     res |-> [tag |-> "None", val |-> <<>>, exc |-> "", at |-> 0]]

Idle == NewCall("none", <<>>, "idle")
Threads == {1, 2}

NoCall == [op |-> "none", args |-> <<>>, res |-> Ret("None", 0)]

InitFs ==
    [l \in {<<>>, NotesDir, OutsideFile} |->
        IF l = OutsideFile THEN FileNode(OutsideData) ELSE DirNode]

Init ==
    /\ fs = InitFs
    /\ last = NoCall
    /\ th = [t \in Threads |-> Idle]

Fits(f) == Cardinality(DOMAIN f) <= MaxNodes

\* a call runs to its return; last is the call and the result its caller holds
Call(op, args, out) ==
    /\ last = NoCall
    /\ Fits(out.fs)
    /\ fs' = out.fs
    /\ last' = [op |-> op, args |-> args, res |-> out.res]
    /\ UNCHANGED th

CreateFolder ==
    \E p \in PathArgs : Call("create_folder", <<p>>, create_folder(fs, p))

SaveNote ==
    \E p \in NotePathArgs, c \in Contents : Call("save_note", <<p, c>>, save_note(fs, p, c))

GetNoteContent ==
    \E p \in NotePathArgs : Call("get_note_content", <<p>>, get_note_content(fs, p))

DeleteNote ==
    \E p \in PathArgs : Call("delete_note", <<p>>, delete_note(fs, p))

MoveNote ==
    \E p, q \in PathArgs : Call("move_note", <<p, q>>, move_note(fs, p, q))

MoveFolder ==
    \E p, q \in PathArgs : Call("move_folder", <<p, q>>, move_folder(fs, p, q))

RenameFolder ==
    \E p, q \in PathArgs : Call("rename_folder", <<p, q>>, rename_folder(fs, p, q))

DeleteFolder ==
    \E p \in PathArgs : Call("delete_folder", <<p>>, delete_folder(fs, p))

SaveUploadedImage ==
    \E p \in PathArgs, n \in FileNames, d \in FileData, t \in Timestamps :
        Call("save_uploaded_image", <<p, n, d, t>>, save_uploaded_image(fs, p, n, d, t))

\* the caller has taken the result and is ready for its next call
Return ==
    /\ last # NoCall
    /\ last' = NoCall
    /\ UNCHANGED <<fs, th>>

Next ==
    \/ CreateFolder
    \/ SaveNote
    \/ GetNoteContent
    \/ DeleteNote
    \/ MoveNote
    \/ MoveFolder
    \/ RenameFolder
    \/ DeleteFolder
    \/ SaveUploadedImage
    \/ Return

Spec == Init /\ [][Next]_vars

----------------------------------------------------------------------------
(* Claims about the store called by one caller at a time (Spec) *)

\* what lies outside the storage root
Outside(f) == [l \in {x \in DOMAIN f : ~IsPrefix(NotesDir, x)} |-> f[l]]

\* the path arguments of a call: all arguments of the folder and move
\* operations, the first argument of the others
PathArgsOf(c) ==
    IF c.op \in {"move_note", "move_folder", "rename_folder"}
    THEN {c.args[1], c.args[2]}
    ELSE IF c.op = "none" THEN {} ELSE {c.args[1]}

Failed(r) == r.tag \in {"False", "None"}

\* C1: no call creates, changes, moves or deletes anything outside the
\* storage root, and a call with a path that resolves outside the root
\* returns False/None and leaves the filesystem as it was.
C1_PathContainment ==
    [][/\ Outside(fs') = Outside(fs)
       /\ (\E a \in PathArgsOf(last') : ~validate_path_security(FullPath(a)))
            => Failed(last'.res) /\ fs' = fs]_vars

\* C2: right after a successful save_note(p, c), get_note_content(p)
\* returns exactly c, also for p without the '.md' extension.
C2_RoundTrip ==
    (last.op = "save_note" /\ last.res.tag = "True")
        => LET r == get_note_content(fs, last.args[1]).res
           IN  r.tag = "str" /\ r.val = last.args[2]

\* p with the extension appended when it is missing
WithMd(p) == IF endswith(p, MdSuffix) THEN p ELSE p \o MdSuffix

\* the call c made on filesystem f
Apply(f, op, args) ==
    CASE op = "save_note" -> save_note(f, args[1], args[2])
      [] op = "get_note_content" -> get_note_content(f, args[1])
      [] op = "delete_note" -> delete_note(f, args[1])
      [] op = "move_note" -> move_note(f, args[1], args[2])

NormalizedArgs(op, args) ==
    CASE op = "save_note" -> <<WithMd(args[1]), args[2]>>
      [] op = "get_note_content" -> <<WithMd(args[1])>>
      [] op = "delete_note" -> <<WithMd(args[1])>>
      [] op = "move_note" -> <<WithMd(args[1]), WithMd(args[2])>>

\* C3: save_note, get_note_content, delete_note and move_note treat a note
\* path without '.md' as the path with '.md' appended: the call has the
\* result and the effect of the call on the path with the extension.
C3_ExtensionNormalized ==
    [][(/\ last'.op \in {"save_note", "get_note_content", "delete_note", "move_note"}
        /\ \A a \in PathArgsOf(last') : a # <<>>)
          => LET out == Apply(fs, last'.op, NormalizedArgs(last'.op, last'.args))
             IN  fs' = out.fs /\ last'.res = out.res]_vars

\* C4: move_note onto an existing destination note fails and leaves the
\* source and the destination as they were.
C4_MoveNoteConflict ==
    [][(/\ last'.op = "move_note"
        /\ is_file(fs, FullPath(last'.args[1]))
        /\ is_file(fs, FullPath(last'.args[2]))
        /\ Stat(fs, FullPath(last'.args[1])).loc # Stat(fs, FullPath(last'.args[2])).loc)
          => last'.res.tag = "False" /\ fs' = fs]_vars

\* what a reader gets: the kind of result and the content
Seen(r) == <<r.tag, r.val>>

\* C5 as stated: after a successful move_note(old, new) with old # new as
\* strings, old reads as not found and new reads as the content old had;
\* a move whose source does not exist fails and changes nothing.
C5_MoveNoteAsStated ==
    [][last'.op = "move_note"
          => /\ (last'.res.tag = "True" /\ last'.args[1] # last'.args[2])
                  => /\ get_note_content(fs', last'.args[1]).res.tag = "None"
                     /\ Seen(get_note_content(fs', last'.args[2]).res)
                          = Seen(get_note_content(fs, last'.args[1]).res)
             /\ ~exists(fs, FullPath(last'.args[1]))
                  => last'.res.tag = "False" /\ fs' = fs]_vars

\* C5 amended: the same, for old and new that resolve to different locations.
C5_MoveNote ==
    [][last'.op = "move_note"
          => /\ (/\ last'.res.tag = "True"
                 /\ resolve(FullPath(last'.args[1])) # resolve(FullPath(last'.args[2])))
                  => /\ get_note_content(fs', last'.args[1]).res.tag = "None"
                     /\ Seen(get_note_content(fs', last'.args[2]).res)
                          = Seen(get_note_content(fs, last'.args[1]).res)
             /\ ~exists(fs, FullPath(last'.args[1]))
                  => last'.res.tag = "False" /\ fs' = fs]_vars

\* a note was moved to another place and is read there
C5_Witness ==
    /\ last.op = "move_note"
    /\ last.res.tag = "True"
    /\ resolve(FullPath(last.args[1])) # resolve(FullPath(last.args[2]))
    /\ get_note_content(fs, last.args[2]).res.tag = "str"
    /\ get_note_content(fs, last.args[1]).res.tag = "None"

\* C7: move_folder and rename_folder onto a destination path that exists
\* return False and change nothing; rename_folder is move_folder.
C7_FolderMoveConflict ==
    [][/\ (/\ last'.op \in {"move_folder", "rename_folder"}
           /\ exists(fs, FullPath(last'.args[2])))
             => last'.res.tag = "False" /\ fs' = fs
       /\ last'.op = "rename_folder"
             => LET out == move_folder(fs, last'.args[1], last'.args[2])
                IN  fs' = out.fs /\ last'.res = out.res]_vars

\* a folder holding a note was refused at line 112: its destination exists
C7_Witness ==
    /\ last.op \in {"move_folder", "rename_folder"}
    /\ last.res.at = 112
    /\ is_dir(fs, FullPath(last.args[1]))
    /\ Children(fs, Stat(fs, FullPath(last.args[1])).loc) # {}
    /\ exists(fs, FullPath(last.args[2]))

\* C8: every store operation reports failure by its result and never raises.
C8_NeverRaises == last.res.tag # "raise"

----------------------------------------------------------------------------
(* backend/main.py, get_graph: strings, link extraction and resolution *)

\* the characters str.strip() removes
Whitespace == {" ", "\t", LF, CR, "\f"}

RECURSIVE lstrip(_)
lstrip(s) == IF s # <<>> /\ Head(s) \in Whitespace THEN lstrip(Tail(s)) ELSE s

RECURSIVE rstrip(_)
rstrip(s) ==
    IF s # <<>> /\ s[Len(s)] \in Whitespace THEN rstrip(SubSeq(s, 1, Len(s) - 1)) ELSE s

strip(s) == rstrip(lstrip(s))

UpperCase ==
    <<"A", "B", "C", "D", "E", "F", "G", "H", "I", "J", "K", "L", "M",
      "N", "O", "P", "Q", "R", "S", "T", "U", "V", "W", "X", "Y", "Z">>
LowerCase ==
    <<"a", "b", "c", "d", "e", "f", "g", "h", "i", "j", "k", "l", "m",
      "n", "o", "p", "q", "r", "s", "t", "u", "v", "w", "x", "y", "z">>

lower_char(c) ==
    IF \E i \in 1..26 : UpperCase[i] = c
    THEN LowerCase[CHOOSE i \in 1..26 : UpperCase[i] = c]
    ELSE c

\* str.lower()
RECURSIVE lower(_)
lower(s) == IF s = <<>> THEN <<>> ELSE <<lower_char(Head(s))>> \o lower(Tail(s))

\* str.replace(sub, ''): every occurrence of sub is removed, left to right
RECURSIVE str_remove(_, _)
str_remove(s, sub) ==
    IF Len(s) < Len(sub) THEN s
    ELSE IF startswith(s, sub) THEN str_remove(SubSeq(s, Len(sub) + 1, Len(s)), sub)
    ELSE <<Head(s)>> \o str_remove(Tail(s), sub)

\* s holds lit at index i
At(s, i, lit) ==
    /\ i + Len(lit) - 1 <= Len(s)
    /\ SubSeq(s, i, i + Len(lit) - 1) = lit

\* the index after the longest run, from index i, of characters not in stop
RECURSIVE RunEnd(_, _, _)
RunEnd(s, i, stop) ==
    IF i <= Len(s) /\ s[i] \notin stop THEN RunEnd(s, i + 1, stop) ELSE i

NoMatch == [ok |-> FALSE, group |-> <<>>, end |-> 0]

\* a match of \[\[([^\]|]+)(?:\|[^\]]+)?\]\] that starts at index i
WikiMatch(s, i) ==
    IF ~At(s, i, <<"[", "[">>) THEN NoMatch
    ELSE LET j == RunEnd(s, i + 2, {"]", "|"})
         IN  IF j = i + 2 THEN NoMatch
             ELSE IF At(s, j, <<"]", "]">>)
             THEN [ok |-> TRUE, group |-> SubSeq(s, i + 2, j - 1), end |-> j + 2]
             ELSE IF j <= Len(s) /\ s[j] = "|"
             THEN LET k == RunEnd(s, j + 1, {"]"})
                  IN  IF k > j + 1 /\ At(s, k, <<"]", "]">>)
                      THEN [ok |-> TRUE, group |-> SubSeq(s, i + 2, j - 1), end |-> k + 2]
                      ELSE NoMatch
             ELSE NoMatch

\* re.findall of the wikilink pattern, line 1057
RECURSIVE FindWikilinks(_, _)
FindWikilinks(s, i) ==
    IF i > Len(s) THEN <<>>
    ELSE LET m == WikiMatch(s, i)
         IN  IF m.ok THEN <<m.group>> \o FindWikilinks(s, m.end)
             ELSE FindWikilinks(s, i + 1)

\* the prefixes the pattern of line 1061 refuses
ExternalPrefixes ==
    {<<"h", "t", "t", "p", ":", "/", "/">>, <<"h", "t", "t", "p", "s", ":", "/", "/">>,
     <<"m", "a", "i", "l", "t", "o", ":">>, <<"#">>, <<"d", "a", "t", "a", ":">>}

\* a match of \[([^\]]+)\]\((?!https?://|mailto:|#|data:)([^\)]+)\) at index i;
\* group is the second group, the destination
MarkdownMatch(s, i) ==
    IF ~At(s, i, <<"[">>) THEN NoMatch
    ELSE LET j == RunEnd(s, i + 1, {"]"})
             p == j + 2
             k == RunEnd(s, p, {")"})
         IN  IF j = i + 1 \/ ~At(s, j, <<"]", "(">>) THEN NoMatch
             ELSE IF \E pre \in ExternalPrefixes : At(s, p, pre) THEN NoMatch
             ELSE IF k = p \/ k > Len(s) THEN NoMatch
             ELSE [ok |-> TRUE, group |-> SubSeq(s, p, k - 1), end |-> k + 1]

\* re.findall of the markdown link pattern, line 1061: the destinations
RECURSIVE FindMarkdownLinks(_, _)
FindMarkdownLinks(s, i) ==
    IF i > Len(s) THEN <<>>
    ELSE LET m == MarkdownMatch(s, i)
         IN  IF m.ok THEN <<m.group>> \o FindMarkdownLinks(s, m.end)
             ELSE FindMarkdownLinks(s, i + 1)

HexDigits ==
    <<"0", "1", "2", "3", "4", "5", "6", "7", "8", "9", "a", "b", "c", "d", "e", "f">>
HexDigitsUpper ==
    <<"0", "1", "2", "3", "4", "5", "6", "7", "8", "9", "A", "B", "C", "D", "E", "F">>

IsHex(c) == \E v \in 1..16 : HexDigits[v] = c \/ HexDigitsUpper[v] = c
HexVal(c) == (CHOOSE v \in 1..16 : HexDigits[v] = c \/ HexDigitsUpper[v] = c) - 1

\* the characters with codes 32 to 126; "" where the model has no character
Ascii ==
    <<" ", "!", "\"", "#", "$", "%", "&", "'", "(", ")", "*", "+", ",", "-", ".", "/",
      "0", "1", "2", "3", "4", "5", "6", "7", "8", "9", ":", ";", "<", "=", ">", "?",
      "@", "A", "B", "C", "D", "E", "F", "G", "H", "I", "J", "K", "L", "M", "N", "O",
      "P", "Q", "R", "S", "T", "U", "V", "W", "X", "Y", "Z", "[", "\\", "]", "^", "_",
      "", "a", "b", "c", "d", "e", "f", "g", "h", "i", "j", "k", "l", "m", "n", "o",
      "p", "q", "r", "s", "t", "u", "v", "w", "x", "y", "z", "{", "|", "}", "~">>

\* urllib.parse.unquote: "%" and two hex digits become the character with
\* that code; an escape of a byte that Ascii has no character for stays as
\* written
RECURSIVE unquote(_)
unquote(s) ==
    IF s = <<>> THEN <<>>
    ELSE IF Head(s) = "%" /\ Len(s) >= 3 /\ IsHex(s[2]) /\ IsHex(s[3])
    THEN LET code == 16 * HexVal(s[2]) + HexVal(s[3])
         IN  IF 32 <= code /\ code <= 126 /\ Ascii[code - 31] # ""
             THEN <<Ascii[code - 31]>> \o unquote(SubSeq(s, 4, Len(s)))
             ELSE <<"%", s[2], s[3]>> \o unquote(SubSeq(s, 4, Len(s)))
    ELSE <<Head(s)>> \o unquote(Tail(s))

\* the entry get_all_notes makes for the file at loc, utils.py lines 165-176
NoteItem(loc) ==
    [name |-> NameStem(PathName(loc)),
     path |-> as_posix(SubSeq(loc, Len(NotesDir) + 1, Len(loc)))]

EmptyDict == [k \in {} |-> <<>>]

\* d[k] = v
DictPut(d, k, v) == [x \in DOMAIN d \cup {k} |-> IF x = k THEN v ELSE d[x]]

\* lines 1028-1043: the paths with and without ".md", the map from lowercase
\* path to path, and the map from lowercase name to path, filled note by
\* note so that a later note replaces an earlier one under the same key
RECURSIVE BuildIndex(_, _)
BuildIndex(notes, idx) ==
    IF notes = <<>> THEN idx
    ELSE LET note == Head(notes)
             bare == str_remove(note.path, MdSuffix)
             name == str_remove(note.name, MdSuffix)
         IN  BuildIndex(Tail(notes),
                 [note_paths |-> idx.note_paths \cup {note.path, bare},
                  note_paths_lower |->
                      DictPut(DictPut(idx.note_paths_lower, lower(note.path), note.path),
                              lower(bare), note.path),
                  note_names |->
                      DictPut(DictPut(idx.note_names, lower(name), note.path),
                              lower(note.name), note.path)])

EmptyIndex ==
    [note_paths |-> {}, note_paths_lower |-> EmptyDict, note_names |-> EmptyDict]

\* lines 1064-1084: the note a wikilink target names, <<>> when none
ResolveWikilink(raw, idx) ==
    LET target == strip(raw)
        target_lower == lower(target)
    IN  IF target \in idx.note_paths
        THEN IF endswith(target, MdSuffix) THEN target ELSE target \o MdSuffix
        ELSE IF (target \o MdSuffix) \in idx.note_paths
        THEN target \o MdSuffix
        ELSE IF target_lower \in DOMAIN idx.note_paths_lower
        THEN idx.note_paths_lower[target_lower]
        ELSE IF (target_lower \o MdSuffix) \in DOMAIN idx.note_paths_lower
        THEN idx.note_paths_lower[target_lower \o MdSuffix]
        ELSE IF target_lower \in DOMAIN idx.note_names
        THEN idx.note_names[target_lower]
        ELSE <<>>

\* lines 1127-1138: the match by file name only
ResolveByFilename(link_path, idx) ==
    LET pieces == split(link_path, "/")
        filename == pieces[Len(pieces)]
        filename_lower == lower(filename)
        filename_with_md == IF endswith(filename, MdSuffix) THEN filename
                            ELSE filename \o MdSuffix
        filename_with_md_lower == lower(filename_with_md)
    IN  IF filename_lower \in DOMAIN idx.note_names
        THEN idx.note_names[filename_lower]
        ELSE IF filename_with_md_lower \in DOMAIN idx.note_names
        THEN idx.note_names[filename_with_md_lower]
        ELSE <<>>

\* lines 1094-1138: the note a markdown link destination names, <<>> when none
ResolveMarkdownLink(raw, idx) ==
    IF raw = <<>> \/ Head(raw) = "#" THEN <<>>
    ELSE LET before_anchor == split(raw, "#")[1]
             unquoted == unquote(before_anchor)
             link_path == IF startswith(unquoted, <<".", "/">>)
                          THEN SubSeq(unquoted, 3, Len(unquoted)) ELSE unquoted
             link_path_with_md == IF endswith(link_path, MdSuffix) THEN link_path
                                  ELSE link_path \o MdSuffix
             link_path_lower == lower(link_path)
             link_path_with_md_lower == lower(link_path_with_md)
         IN  IF before_anchor = <<>> THEN <<>>
             ELSE IF link_path \in idx.note_paths
             THEN IF endswith(link_path, MdSuffix) THEN link_path
                  ELSE link_path \o MdSuffix
             ELSE IF link_path_with_md \in idx.note_paths
             THEN link_path_with_md
             ELSE IF link_path_lower \in DOMAIN idx.note_paths_lower
             THEN idx.note_paths_lower[link_path_lower]
             ELSE IF link_path_with_md_lower \in DOMAIN idx.note_paths_lower
             THEN idx.note_paths_lower[link_path_with_md_lower]
             ELSE ResolveByFilename(link_path, idx)

\* EdgesTo without the test target_path != note['path']
RECURSIVE EdgesTo_keeping_self(_, _, _)
EdgesTo_keeping_self(source, targets, type) ==
    IF targets = <<>> THEN <<>>
    ELSE LET target_path == Head(targets)
             rest == EdgesTo_keeping_self(source, Tail(targets), type)
         IN  IF target_path # <<>>
             THEN <<[source |-> source, target |-> target_path, type |-> type]>> \o rest
             ELSE rest

\* lines 1086-1091 and 1140-1145: an edge for every target found that is
\* not the note itself
RECURSIVE EdgesTo(_, _, _)
EdgesTo(source, targets, type) ==
    IF targets = <<>> THEN <<>>
    ELSE LET target_path == Head(targets)
             rest == EdgesTo(source, Tail(targets), type)
         IN  IF target_path # <<>> /\ target_path # source
             THEN <<[source |-> source, target |-> target_path, type |-> type]>> \o rest
             ELSE rest

RECURSIVE MapWikilinks(_, _)
MapWikilinks(raws, idx) ==
    IF raws = <<>> THEN <<>>
    ELSE <<ResolveWikilink(Head(raws), idx)>> \o MapWikilinks(Tail(raws), idx)

RECURSIVE MapMarkdownLinks(_, _)
MapMarkdownLinks(raws, idx) ==
    IF raws = <<>> THEN <<>>
    ELSE <<ResolveMarkdownLink(Head(raws), idx)>> \o MapMarkdownLinks(Tail(raws), idx)

\* lines 1055-1145: the edges of one note; content is <<>> for a note
\* whose content is None or empty
NoteEdges(source, content, idx) ==
    EdgesTo(source, MapWikilinks(FindWikilinks(content, 1), idx), "wikilink")
        \o EdgesTo(source, MapMarkdownLinks(FindMarkdownLinks(content, 1), idx), "markdown")

\* unique_edges with the kind of the reference in the key
RECURSIVE unique_edges_by_kind(_, _)
unique_edges_by_kind(edges, seen) ==
    IF edges = <<>> THEN <<>>
    ELSE LET key == <<Head(edges).source, Head(edges).target, Head(edges).type>>
         IN  IF key \in seen THEN unique_edges_by_kind(Tail(edges), seen)
             ELSE <<Head(edges)>> \o unique_edges_by_kind(Tail(edges), seen \cup {key})

\* unique_edges with a key that holds for both directions
RECURSIVE unique_edges_unordered(_, _)
unique_edges_unordered(edges, seen) ==
    IF edges = <<>> THEN <<>>
    ELSE LET key == <<Head(edges).source, Head(edges).target>>
             back == <<Head(edges).target, Head(edges).source>>
         IN  IF key \in seen THEN unique_edges_unordered(Tail(edges), seen)
             ELSE <<Head(edges)>>
                      \o unique_edges_unordered(Tail(edges), seen \cup {key, back})

\* lines 1147-1154: the first edge of every (source, target) pair
RECURSIVE unique_edges(_, _)
unique_edges(edges, seen) ==
    IF edges = <<>> THEN <<>>
    ELSE LET key == <<Head(edges).source, Head(edges).target>>
         IN  IF key \in seen THEN unique_edges(Tail(edges), seen)
             ELSE <<Head(edges)>> \o unique_edges(Tail(edges), seen \cup {key})

\* lines 1048-1051: the node of a note
GraphNode(note) == [id |-> note.path, label |-> str_remove(note.name, MdSuffix)]

RECURSIVE GraphNodes(_)
GraphNodes(notes) ==
    IF notes = <<>> THEN <<>> ELSE <<GraphNode(Head(notes))>> \o GraphNodes(Tail(notes))

RECURSIVE AllEdges(_, _, _)
AllEdges(notes, read, idx) ==
    IF notes = <<>> THEN <<>>
    ELSE NoteEdges(Head(notes).path, read[Head(notes).path], idx)
             \o AllEdges(Tail(notes), read, idx)

\* lines 1024-1156 for the listing notes, read[p] being the content read
\* for the note of path p (<<>> for None)
build_graph(notes, read) ==
    [nodes |-> GraphNodes(notes),
     edges |-> unique_edges(AllEdges(notes, read, BuildIndex(notes, EmptyIndex)), {})]

----------------------------------------------------------------------------
(* The store called by several callers at once.  A call in flight advances *)
(* one system call at a time, and the steps of the calls interleave.       *)

\* the data an open file reads and writes
FdData(f, fd) == IF fd.live THEN f[fd.loc].data ELSE fd.data

\* an open file after the node at sloc was renamed to dloc: the file
\* follows its node; a file open on the replaced node keeps that node's data
FdAfterRename(f, fd, sloc, dloc) ==
    IF ~fd.open \/ ~fd.live \/ sloc = dloc THEN fd
    ELSE IF IsPrefix(sloc, fd.loc)
    THEN [fd EXCEPT !.loc = dloc \o SubSeq(fd.loc, Len(sloc) + 1, Len(fd.loc))]
    ELSE IF IsPrefix(dloc, fd.loc)
    THEN [fd EXCEPT !.live = FALSE, !.data = f[fd.loc].data]
    ELSE fd

\* an open file after the node at loc was unlinked
FdAfterUnlink(f, fd, loc) ==
    IF fd.open /\ fd.live /\ fd.loc = loc
    THEN [fd EXCEPT !.live = FALSE, !.data = f[loc].data]
    ELSE fd

\* the call returns res to its caller
Done(c, res) == [c EXCEPT !.pc = "done", !.res = res, !.fd = NoFd]

\* a caller starts a call
Begin(t, op, args, pc) ==
    /\ th[t].pc = "idle"
    /\ th' = [th EXCEPT ![t] = NewCall(op, args, pc)]
    /\ UNCHANGED <<fs, last>>

\* a caller has taken the result and is ready for its next call
Finish(t) ==
    /\ th[t].pc = "done"
    /\ th' = [th EXCEPT ![t] = Idle]
    /\ UNCHANGED <<fs, last>>

(* get_graph, the loop over the notes *)

\* lines 1045-1145 after the content of note i was read: its edges are
\* added; then the next note, or lines 1147-1156; an exception raised by
\* the read is caught at line 1157
GraphAfterRead(c, res) ==
    IF res.tag = "raise" THEN Done(c, Raise("HTTPException", 1158))
    ELSE LET g == c.g
             content == IF res.tag = "str" THEN res.val ELSE <<>>
             idx == BuildIndex(g.notes, EmptyIndex)
             edges == g.edges \o NoteEdges(g.notes[g.i].path, content, idx)
         IN  IF g.i < Len(g.notes)
             THEN [c EXCEPT !.pc = "gn_exists", !.fd = NoFd,
                            !.g = [g EXCEPT !.i = g.i + 1, !.edges = edges,
                                            !.nodes = Append(g.nodes, GraphNode(g.notes[g.i + 1]))]]
             ELSE Done([c EXCEPT !.g = [g EXCEPT !.edges = unique_edges(edges, {})]],
                       Ret("graph", 1156))

\* the note path a get_note_content in flight was called with
GnPath(c) == IF c.op = "get_graph" THEN c.g.notes[c.g.i].path ELSE c.args[1]

\* get_note_content returns res: to the graph build that called it, or to
\* the caller
GnReturn(c, res) == IF c.op = "get_graph" THEN GraphAfterRead(c, res) ELSE Done(c, res)

(* move_note *)

\* lines 73-82: the check of the two paths and old_full_path.exists()
MnExists(t) ==
    /\ th[t].pc = "mn_exists"
    /\ LET old_full_path == FullPath(th[t].args[1])
           new_full_path == FullPath(th[t].args[2])
       IN  th' = [th EXCEPT ![t] =
                IF ~validate_path_security(old_full_path)
                       \/ ~validate_path_security(new_full_path)
                THEN Done(@, Ret("False", 79))
                ELSE IF ~exists(fs, old_full_path)
                THEN Done(@, Ret("False", 82))
                ELSE [@ EXCEPT !.pc = "mn_mkdir"]]
    /\ UNCHANGED <<fs, last>>

\* line 85: new_full_path.parent.mkdir(parents=True, exist_ok=True)
MnMkdir(t) ==
    /\ th[t].pc = "mn_mkdir"
    /\ LET m == mkdir_parents(fs, Parent(FullPath(th[t].args[2])))
       IN  /\ fs' = m.fs
           /\ th' = [th EXCEPT ![t] =
                    IF m.exc # "" THEN Done(@, Raise(m.exc, 85))
                    ELSE [@ EXCEPT !.pc = "mn_rename"]]
    /\ UNCHANGED last

\* lines 88-92 with the rename replaced by a copy that leaves the source
MnRename_copying(t) ==
    /\ th[t].pc = "mn_rename"
    /\ LET old_full_path == FullPath(th[t].args[1])
           new_full_path == FullPath(th[t].args[2])
           r == IF is_file(fs, old_full_path)
                THEN open_write(fs, new_full_path, fs[Stat(fs, old_full_path).loc].data)
                ELSE os_rename(fs, old_full_path, new_full_path)
       IN  /\ fs' = r.fs
           /\ th' = [th EXCEPT ![t] =
                    IF r.err # "" THEN Done(@, Raise(ExcOf(r.err), 88))
                    ELSE Done(@, Ret("True", 92))]
    /\ UNCHANGED last

\* lines 88-92: old_full_path.rename(new_full_path)
MnRename(t) ==
    /\ th[t].pc = "mn_rename"
    /\ LET old_full_path == FullPath(th[t].args[1])
           new_full_path == FullPath(th[t].args[2])
           r == os_rename(fs, old_full_path, new_full_path)
           sloc == Stat(fs, old_full_path).loc
           dloc == Walk(fs, new_full_path).loc
       IN  /\ fs' = r.fs
           /\ th' = [u \in Threads |->
                    IF u = t
                    THEN IF r.err # "" THEN Done(th[t], Raise(ExcOf(r.err), 88))
                         ELSE Done(th[t], Ret("True", 92))
                    ELSE IF r.err # "" THEN th[u]
                    ELSE [th[u] EXCEPT !.fd = FdAfterRename(fs, @, sloc, dloc)]]
    /\ UNCHANGED last

(* get_note_content *)

\* line 189, first test: full_path.exists()
GnExists(t) ==
    /\ th[t].pc = "gn_exists"
    /\ th' = [th EXCEPT ![t] =
             IF ~exists(fs, FullPath(GnPath(@)))
             THEN GnReturn(@, Ret("None", 190))
             ELSE [@ EXCEPT !.pc = "gn_isfile"]]
    /\ UNCHANGED <<fs, last>>

\* line 189, second test: full_path.is_file()
GnIsFile(t) ==
    /\ th[t].pc = "gn_isfile"
    /\ th' = [th EXCEPT ![t] =
             IF ~is_file(fs, FullPath(GnPath(@)))
             THEN GnReturn(@, Ret("None", 190))
             ELSE [@ EXCEPT !.pc = "gn_open"]]
    /\ UNCHANGED <<fs, last>>

\* lines 193-196: the check of the path, then open(full_path, 'r')
GnOpen(t) ==
    /\ th[t].pc = "gn_open"
    /\ LET full_path == FullPath(GnPath(th[t]))
           s == Stat(fs, full_path)
       IN  th' = [th EXCEPT ![t] =
                IF ~validate_path_security(full_path)
                THEN GnReturn(@, Ret("None", 194))
                ELSE IF s.err # "" THEN GnReturn(@, Raise(ExcOf(s.err), 196))
                ELSE IF fs[s.loc].kind = "dir"
                THEN GnReturn(@, Raise("IsADirectoryError", 196))
                ELSE [@ EXCEPT !.pc = "gn_read",
                               !.fd = [open |-> TRUE, loc |-> s.loc,
                                       live |-> TRUE, data |-> <<>>]]]
    /\ UNCHANGED <<fs, last>>

\* line 197: f.read(), and the file is closed
GnRead(t) ==
    /\ th[t].pc = "gn_read"
    /\ th' = [th EXCEPT ![t] = GnReturn(@, RetStr(ReadText(FdData(fs, @.fd)), 197))]
    /\ UNCHANGED <<fs, last>>

(* save_note *)

\* lines 202-213: the full path, its check, and the directories above it
SnMkdir(t) ==
    /\ th[t].pc = "sn_mkdir"
    /\ LET note_path == th[t].args[1]
           joined == FullPath(note_path)
           full_path == IF ~endswith(note_path, MdSuffix)
                        THEN with_suffix_md(joined) ELSE joined
           m == mkdir_parents(fs, Parent(full_path))
       IN  IF ~endswith(note_path, MdSuffix) /\ joined = <<>>
           THEN /\ th' = [th EXCEPT ![t] = Done(@, Raise("ValueError", 206))]
                /\ fs' = fs
           ELSE IF ~validate_path_security(full_path)
           THEN /\ th' = [th EXCEPT ![t] = Done(@, Ret("False", 210))]
                /\ fs' = fs
           ELSE /\ fs' = m.fs
                /\ th' = [th EXCEPT ![t] =
                         IF m.exc # "" THEN Done(@, Raise(m.exc, 213))
                         ELSE [@ EXCEPT !.pc = "sn_open", !.path = full_path]]
    /\ UNCHANGED last

\* line 215: open(full_path, 'w') creates the file or cuts it to length 0
SnOpen(t) ==
    /\ th[t].pc = "sn_open"
    /\ LET w == open_write(fs, th[t].path, <<>>)
       IN  /\ fs' = w.fs
           /\ th' = [th EXCEPT ![t] =
                    IF w.err # "" THEN Done(@, Raise(ExcOf(w.err), 215))
                    ELSE [@ EXCEPT !.pc = "sn_write",
                                   !.fd = [open |-> TRUE, loc |-> Walk(fs, th[t].path).loc,
                                           live |-> TRUE, data |-> <<>>]]]
    /\ UNCHANGED last

\* content written at the start of a file that holds data
WriteAt0(data, content) == content \o SubSeq(data, Len(content) + 1, Len(data))

\* lines 216-218: f.write(content) reaches the file when it is closed, from
\* the position the open left it at, the start
SnWrite(t) ==
    /\ th[t].pc = "sn_write"
    /\ LET fd == th[t].fd
           content == th[t].args[2]
       IN  /\ fs' = IF fd.live
                    THEN [fs EXCEPT ![fd.loc] = FileNode(WriteAt0(fs[fd.loc].data, content))]
                    ELSE fs
           /\ th' = [th EXCEPT ![t] = Done(@, Ret("True", 218))]
    /\ UNCHANGED last

(* delete_note *)

\* line 225: full_path.exists()
DnExists(t) ==
    /\ th[t].pc = "dn_exists"
    /\ th' = [th EXCEPT ![t] =
             IF ~exists(fs, FullPath(th[t].args[1]))
             THEN Done(@, Ret("False", 226))
             ELSE [@ EXCEPT !.pc = "dn_unlink"]]
    /\ UNCHANGED <<fs, last>>

\* lines 229-236: the check of the path, then full_path.unlink()
DnUnlink(t) ==
    /\ th[t].pc = "dn_unlink"
    /\ LET full_path == FullPath(th[t].args[1])
           r == os_unlink(fs, full_path)
           loc == Stat(fs, full_path).loc
       IN  IF ~validate_path_security(full_path)
           THEN /\ th' = [th EXCEPT ![t] = Done(@, Ret("False", 230))]
                /\ fs' = fs
           ELSE /\ fs' = r.fs
                /\ th' = [u \in Threads |->
                         IF u = t
                         THEN IF r.err # "" THEN Done(th[t], Raise(ExcOf(r.err), 232))
                              ELSE Done(th[t], Ret("True", 236))
                         ELSE IF r.err # "" THEN th[u]
                         ELSE [th[u] EXCEPT !.fd = FdAfterUnlink(fs, @, loc)]]
    /\ UNCHANGED last

(* get_graph, lines 1018-1158, with get_all_notes, utils.py lines 159-182 *)

\* a sequence of the elements of a finite set
RECURSIVE SetToSeq(_)
SetToSeq(S) ==
    IF S = {} THEN <<>>
    ELSE LET x == CHOOSE y \in S : TRUE IN <<x>> \o SetToSeq(S \ {x})

\* the sequences that hold every element of seq once
Orders(seq) ==
    {o \in [1..Len(seq) -> {seq[i] : i \in 1..Len(seq)}] :
        \A i, j \in 1..Len(seq) : i # j => o[i] # o[j]}

\* what notes_path.rglob("*.md") finds: every file or directory below the
\* root whose name ends with ".md"
rglob_md(f) ==
    {loc \in DOMAIN f : /\ IsPrefix(NotesDir, loc) /\ loc # NotesDir
                        /\ endswith(PathName(loc), MdSuffix)}

\* utils.py line 165: the directories are listed
GgRglob(t) ==
    /\ th[t].pc = "gg_rglob"
    /\ LET found == SetToSeq(rglob_md(fs))
       IN  th' = [th EXCEPT ![t] =
                [@ EXCEPT !.pc = IF found = <<>> THEN "gg_sort" ELSE "gg_stat",
                          !.g = [NoGraph EXCEPT !.found = found, !.i = 1]]]
    /\ UNCHANGED <<fs, last>>

\* utils.py lines 167-176: md_file.stat() for entry i of the listing; a
\* FileNotFoundError leaves get_all_notes and is caught at line 1157; the
\* time of last change that stat reports is whatever the file has: one of
\* three times, a greater number being later
GgStat(t) ==
    /\ th[t].pc = "gg_stat"
    /\ \E st_mtime \in {1, 2, 3} :
          LET g == th[t].g
              seen == [g EXCEPT !.modified = Append(g.modified, st_mtime)]
          IN  th' = [th EXCEPT ![t] =
                   IF ~exists(fs, g.found[g.i])
                   THEN Done(@, Raise("HTTPException", 1158))
                   ELSE IF g.i < Len(g.found)
                   THEN [@ EXCEPT !.g = [seen EXCEPT !.i = g.i + 1]]
                   ELSE [@ EXCEPT !.pc = "gg_sort", !.g = seen]]
    /\ UNCHANGED <<fs, last>>

\* GgSort with sorted(..., reverse=True) taken as a sort in ascending order
GgSort_ascending(t) ==
    /\ th[t].pc = "gg_sort"
    /\ LET g == th[t].g
           n == Len(g.found)
           order == CHOOSE o \in Orders([i \in 1..n |-> i]) :
                       \A i, j \in 1..n : i < j =>
                           \/ g.modified[o[i]] < g.modified[o[j]]
                           \/ g.modified[o[i]] = g.modified[o[j]] /\ o[i] < o[j]
           notes == [i \in 1..n |-> NoteItem(g.found[order[i]])]
           modified == [i \in 1..n |-> g.modified[order[i]]]
       IN  th' = [th EXCEPT ![t] =
                IF n = 0
                THEN Done(@, Ret("graph", 1156))
                ELSE [@ EXCEPT !.pc = "gn_exists",
                               !.g = [NoGraph EXCEPT !.notes = notes, !.i = 1,
                                                     !.modified = modified,
                                                     !.nodes = <<GraphNode(notes[1])>>]]]
    /\ UNCHANGED <<fs, last>>

\* utils.py lines 178-182 and lines 1025-1051: the images are listed and
\* left out by the test on 'type'; the notes are sorted by 'modified', the
\* latest first, notes of one time staying in the order of the listing
\* (sorted is stable); modified keeps the time of each note; the loop starts
GgSort(t) ==
    /\ th[t].pc = "gg_sort"
    /\ LET g == th[t].g
           n == Len(g.found)
           order == CHOOSE o \in Orders([i \in 1..n |-> i]) :
                       \A i, j \in 1..n : i < j =>
                           \/ g.modified[o[i]] > g.modified[o[j]]
                           \/ g.modified[o[i]] = g.modified[o[j]] /\ o[i] < o[j]
           notes == [i \in 1..n |-> NoteItem(g.found[order[i]])]
           modified == [i \in 1..n |-> g.modified[order[i]]]
       IN  th' = [th EXCEPT ![t] =
                IF n = 0
                THEN Done(@, Ret("graph", 1156))
                ELSE [@ EXCEPT !.pc = "gn_exists",
                               !.g = [NoGraph EXCEPT !.notes = notes, !.i = 1,
                                                     !.modified = modified,
                                                     !.nodes = <<GraphNode(notes[1])>>]]]
    /\ UNCHANGED <<fs, last>>

----------------------------------------------------------------------------
(* A move_note and a reader of its paths *)

\* the filesystem after save_note was called for each <<path, content>>
RECURSIVE SavedNotes(_, _)
SavedNotes(f, notes) ==
    IF notes = <<>> THEN f
    ELSE SavedNotes(save_note(f, Head(notes)[1], Head(notes)[2]).fs, Tail(notes))

\* the paths the move and the reader are called with
MovePaths == {P_n_md, P_a_n_md, P_a_up_n_md, P_a}

\* the stores the move starts on: one note, and two notes of different content
MoveReadFs ==
    {SavedNotes(InitFs, << <<P_n_md, <<"A", "A">>>> >>),
     SavedNotes(InitFs, << <<P_n_md, <<"A", "A">>>>, <<P_a_n_md, <<"B", CR, LF>>>> >>)}

InitMoveRead ==
    /\ fs \in MoveReadFs
    /\ last = NoCall
    /\ th = [t \in Threads |-> Idle]

\* move_note is called; c0 and d0 record what its two paths read as
BeginMoveNote(t) ==
    \E p, q \in MovePaths :
        /\ th[t].pc = "idle"
        /\ th' = [th EXCEPT ![t] =
                 [NewCall("move_note", <<p, q>>, "mn_exists")
                     EXCEPT !.c0 = Seen(get_note_content(fs, p).res),
                            !.d0 = Seen(get_note_content(fs, q).res)]]
        /\ UNCHANGED <<fs, last>>

BeginGetNoteContent(t) ==
    \E p \in MovePaths : Begin(t, "get_note_content", <<p>>, "gn_exists")

NextMoveRead ==
    \/ BeginMoveNote(1)
    \/ MnExists(1)
    \/ MnMkdir(1)
    \/ MnRename(1)
    \/ BeginGetNoteContent(2)
    \/ GnExists(2)
    \/ GnIsFile(2)
    \/ GnOpen(2)
    \/ GnRead(2)
    \/ Finish(2)

SpecMoveRead == InitMoveRead /\ [][NextMoveRead]_vars

\* what a reader can read of a note that is whole
CompleteContents == {ReadText(c) : c \in Contents}

\* every content a finished reader was handed is whole
ReadersSeeWhole ==
    \A r \in Threads :
        (th[r].op = "get_note_content" /\ th[r].pc = "done" /\ th[r].res.tag = "str")
            => th[r].res.val \in CompleteContents

\* C6 as stated: from the call of move_note(old, new) on a note, at every
\* step, the note's content is read under exactly one of old and new, and
\* every reader is handed a whole content.
C6_MoveAtomicAsStated ==
    /\ \A t \in Threads :
          (th[t].op = "move_note" /\ th[t].c0[1] = "str" /\ th[t].args[1] # th[t].args[2])
              => ~((Seen(get_note_content(fs, th[t].args[1]).res) = th[t].c0)
                     <=> (Seen(get_note_content(fs, th[t].args[2]).res) = th[t].c0))
    /\ ReadersSeeWhole

\* C6 amended: the same, for old and new that resolve to different locations.
C6_MoveAtomic ==
    /\ \A t \in Threads :
          (/\ th[t].op = "move_note" /\ th[t].c0[1] = "str"
           /\ resolve(FullPath(th[t].args[1])) # resolve(FullPath(th[t].args[2])))
              => ~((Seen(get_note_content(fs, th[t].args[1]).res) = th[t].c0)
                     <=> (Seen(get_note_content(fs, th[t].args[2]).res) = th[t].c0))
    /\ ReadersSeeWhole

\* the note was renamed while a reader held it open under its old path
C6_Witness ==
    /\ th[1].op = "move_note" /\ th[1].pc = "done" /\ th[1].res.tag = "True"
    /\ th[1].c0[1] = "str"
    /\ resolve(FullPath(th[1].args[1])) # resolve(FullPath(th[1].args[2]))
    /\ th[2].pc = "gn_read"
    /\ th[2].args[1] = th[1].args[1]
    /\ th[2].fd.loc = Walk(fs, FullPath(th[1].args[2])).loc

----------------------------------------------------------------------------
(* Two save_note calls at once *)

SavePaths == {P_n_md, P_n}

InitSaveSave ==
    /\ fs = InitFs
    /\ last = NoCall
    /\ th = [t \in Threads |-> Idle]

BeginSaveNote(t) ==
    \E p \in SavePaths, c \in Contents : Begin(t, "save_note", <<p, c>>, "sn_mkdir")

NextSaveSave ==
    \E t \in Threads :
        \/ BeginSaveNote(t)
        \/ SnMkdir(t)
        \/ SnOpen(t)
        \/ SnWrite(t)

SpecSaveSave == InitSaveSave /\ [][NextSaveSave]_vars

\* C9: when two save_note calls on the same note have both returned True,
\* the note holds the content of one of them.
C9_LastWriterWins ==
    (/\ th[1].pc = "done" /\ th[2].pc = "done"
     /\ th[1].res.tag = "True" /\ th[2].res.tag = "True"
     /\ th[1].path = th[2].path)
        => /\ is_file(fs, th[1].path)
           /\ fs[Stat(fs, th[1].path).loc].data \in {th[1].args[2], th[2].args[2]}

----------------------------------------------------------------------------
(* A graph build and a delete_note at once *)

\* two notes that link to each other
GraphNotes ==
    << <<P_n_md, <<"[", "[", "a", "/", "n", "]", "]">>>>,
       <<P_a_n_md, <<"[", "t", "]", "(", ".", ".", "/", "n", ".", "m", "d", ")">>>> >>

DeletePaths == {P_n_md, P_a_n_md}

InitGraph ==
    /\ fs = SavedNotes(InitFs, GraphNotes)
    /\ last = NoCall
    /\ th = [t \in Threads |-> Idle]

BeginGetGraph(t) == Begin(t, "get_graph", <<>>, "gg_rglob")

BeginDeleteNote(t) ==
    \E p \in DeletePaths : Begin(t, "delete_note", <<p>>, "dn_exists")

NextGraph ==
    \/ BeginGetGraph(1)
    \/ GgRglob(1)
    \/ GgStat(1)
    \/ GgSort(1)
    \/ GnExists(1)
    \/ GnIsFile(1)
    \/ GnOpen(1)
    \/ GnRead(1)
    \/ Finish(1)
    \/ BeginDeleteNote(2)
    \/ DnExists(2)
    \/ DnUnlink(2)
    \/ Finish(2)

SpecGraph == InitGraph /\ [][NextGraph]_vars

\* C10: a graph build returns a graph, whatever a delete_note at the same
\* time does to the notes.
C10_GraphSurvives ==
    \A t \in Threads :
        (th[t].op = "get_graph" /\ th[t].pc = "done") => th[t].res.tag = "graph"

----------------------------------------------------------------------------
(* A graph build over a store of notes that link to each other *)

\* the stores a build runs on, each as the save_note calls that made it:
\* <<path, content>> for each note
LinkCorpora ==
    {
     <<
        \* Plan.md: text
        <<<<"P", "l", "a", "n", ".", "m", "d">>,
          <<"t", "e", "x", "t">>>>,
        \* Projects/Plan.md: [[Plan]]
        <<<<"P", "r", "o", "j", "e", "c", "t", "s", "/", "P", "l", "a", "n", ".", "m", "d">>,
          <<"[", "[", "P", "l", "a", "n", "]", "]">>>>,
        \* S.md: [[Projects/Plan]] [[projects/plan|p]] [t](./Projects/Plan.md#s)
        <<<<"S", ".", "m", "d">>,
          <<"[", "[", "P", "r", "o", "j", "e", "c", "t", "s", "/", "P", "l",
            "a", "n", "]", "]", " ", "[", "[", "p", "r", "o", "j", "e", "c",
            "t", "s", "/", "p", "l", "a", "n", "|", "p", "]", "]", " ", "[",
            "t", "]", "(", ".", "/", "P", "r", "o", "j", "e", "c", "t", "s",
            "/", "P", "l", "a", "n", ".", "m", "d", "#", "s", ")">>>>
     >>,
     <<
        \* Projects/Plan.md: text
        <<<<"P", "r", "o", "j", "e", "c", "t", "s", "/", "P", "l", "a", "n", ".", "m", "d">>,
          <<"t", "e", "x", "t">>>>,
        \* Old/plan.md: text
        <<<<"O", "l", "d", "/", "p", "l", "a", "n", ".", "m", "d">>,
          <<"t", "e", "x", "t">>>>,
        \* S.md: [[plan]] [t](PLAN) [[Nope]] [t](http://x/Plan.md)
        <<<<"S", ".", "m", "d">>,
          <<"[", "[", "p", "l", "a", "n", "]", "]", " ", "[", "t", "]", "(",
            "P", "L", "A", "N", ")", " ", "[", "[", "N", "o", "p", "e", "]",
            "]", " ", "[", "t", "]", "(", "h", "t", "t", "p", ":", "/", "/",
            "x", "/", "P", "l", "a", "n", ".", "m", "d", ")">>>>
     >>,
     <<
        \* Plan.md: text
        <<<<"P", "l", "a", "n", ".", "m", "d">>,
          <<"t", "e", "x", "t">>>>,
        \* Projects/S.md: [text](../Plan.md)
        <<<<"P", "r", "o", "j", "e", "c", "t", "s", "/", "S", ".", "m", "d">>,
          <<"[", "t", "e", "x", "t", "]", "(", ".", ".", "/", "P", "l", "a",
            "n", ".", "m", "d", ")">>>>
     >>,
     <<
        \* Plan.md: text
        <<<<"P", "l", "a", "n", ".", "m", "d">>,
          <<"t", "e", "x", "t">>>>,
        \* Projects/S.md: [text](../plan)
        <<<<"P", "r", "o", "j", "e", "c", "t", "s", "/", "S", ".", "m", "d">>,
          <<"[", "t", "e", "x", "t", "]", "(", ".", ".", "/", "p", "l", "a",
            "n", ")">>>>
     >>,
     <<
        \* Plan.md.md: text
        <<<<"P", "l", "a", "n", ".", "m", "d", ".", "m", "d">>,
          <<"t", "e", "x", "t">>>>,
        \* S.md: [[Plan]]
        <<<<"S", ".", "m", "d">>,
          <<"[", "[", "P", "l", "a", "n", "]", "]">>>>
     >>,
     <<
        \* A.md: [t](B.md) [[B]] [[ A ]] [t](a.md) [[b|again]]
        <<<<"A", ".", "m", "d">>,
          <<"[", "t", "]", "(", "B", ".", "m", "d", ")", " ", "[", "[", "B",
            "]", "]", " ", "[", "[", " ", "A", " ", "]", "]", " ", "[", "t",
            "]", "(", "a", ".", "m", "d", ")", " ", "[", "[", "b", "|", "a",
            "g", "a", "i", "n", "]", "]">>>>,
        \* B.md: text
        <<<<"B", ".", "m", "d">>,
          <<"t", "e", "x", "t">>>>
     >>,
     <<
        \* A.md: [[B]]
        <<<<"A", ".", "m", "d">>,
          <<"[", "[", "B", "]", "]">>>>,
        \* B.md: [t](A%2Emd)
        <<<<"B", ".", "m", "d">>,
          <<"[", "t", "]", "(", "A", "%", "2", "E", "m", "d", ")">>>>
     >>,
     <<
        \* Plan.md: text
        <<<<"P", "l", "a", "n", ".", "m", "d">>,
          <<"t", "e", "x", "t">>>>,
        \* S.md: [t](HTTP://x/plan) [t](https://x/plan) [t](./Plan.md#s)
        <<<<"S", ".", "m", "d">>,
          <<"[", "t", "]", "(", "H", "T", "T", "P", ":", "/", "/", "x", "/",
            "p", "l", "a", "n", ")", " ", "[", "t", "]", "(", "h", "t", "t",
            "p", "s", ":", "/", "/", "x", "/", "p", "l", "a", "n", ")", " ",
            "[", "t", "]", "(", ".", "/", "P", "l", "a", "n", ".", "m", "d",
            "#", "s", ")">>>>
     >>
    }

InitLinks ==
    /\ fs \in {SavedNotes(InitFs, corpus) : corpus \in LinkCorpora}
    /\ last = NoCall
    /\ th = [t \in Threads |-> Idle]

NextLinks ==
    \/ BeginGetGraph(1)
    \/ GgRglob(1)
    \/ GgStat(1)
    \/ GgSort(1)
    \/ GnExists(1)
    \/ GnIsFile(1)
    \/ GnOpen(1)
    \/ GnRead(1)
    \/ Finish(1)

SpecLinks == InitLinks /\ [][NextLinks]_vars

\* the elements of a sequence
Range(s) == {s[i] : i \in 1..Len(s)}

\* the build of caller t has returned a graph, held in th[t].g
Built(t) == th[t].op = "get_graph" /\ th[t].pc = "done" /\ th[t].res.tag = "graph"

ListedPaths(g) == {g.notes[i].path : i \in 1..Len(g.notes)}
NodeIds(g) == {g.nodes[i].id : i \in 1..Len(g.nodes)}

\* the content the build read for the note of path p
ContentOf(p) ==
    LET r == get_note_content(fs, p).res IN IF r.tag = "str" THEN r.val ELSE <<>>

\* a name without the extension '.md'
WithoutMd(name) ==
    IF endswith(name, MdSuffix) THEN SubSeq(name, 1, Len(name) - Len(MdSuffix)) ELSE name

FinalSegment(target) == LET parts == split(target, "/") IN parts[Len(parts)]

\* the display name of a note: its file name without folder and extension
DisplayName(path) == WithoutMd(FinalSegment(path))

\* the notes tier k matches target to: exact path, path plus '.md',
\* case-insensitive path, case-insensitive path plus '.md', case-insensitive
\* display name
TierMatches(k, target, paths) ==
    CASE k = 1 -> {p \in paths : p = target}
      [] k = 2 -> {p \in paths : p = target \o MdSuffix}
      [] k = 3 -> {p \in paths : lower(p) = lower(target)}
      [] k = 4 -> {p \in paths : lower(p) = lower(target) \o MdSuffix}
      [] k = 5 -> {p \in paths : lower(DisplayName(p)) = lower(target)}

\* the matches of the first tier that has one; {} when no tier matches
FirstTier(target, paths) ==
    IF \A k \in 1..5 : TierMatches(k, target, paths) = {} THEN {}
    ELSE TierMatches(CHOOSE k \in 1..5 :
                         /\ TierMatches(k, target, paths) # {}
                         /\ \A j \in 1..(k - 1) : TierMatches(j, target, paths) = {},
                     target, paths)

\* the target of an inline reference: the destination without its anchor,
\* percent-decoded, without a leading './'
InlineTarget(raw) ==
    LET d == unquote(split(raw, "#")[1])
    IN  IF startswith(d, <<".", "/">>) THEN SubSeq(d, 3, Len(d)) ELSE d

\* C11: for every reference of every note of a build, the resolver returns
\* a match of the first tier that matches the target, in the order exact
\* path, path plus '.md', case-insensitive path, case-insensitive path plus
\* '.md', case-insensitive display name; a bracketed reference that no tier
\* matches is unresolved.
C11_TierOrder ==
    \A t \in Threads :
        Built(t) =>
            LET g == th[t].g
                paths == ListedPaths(g)
                idx == BuildIndex(g.notes, EmptyIndex)
            IN  \A p \in paths :
                    /\ \A raw \in Range(FindWikilinks(ContentOf(p), 1)) :
                          LET first == FirstTier(strip(raw), paths)
                              r == ResolveWikilink(raw, idx)
                          IN  IF first = {} THEN r = <<>> ELSE r \in first
                    /\ \A raw \in Range(FindMarkdownLinks(ContentOf(p), 1)) :
                          LET first == FirstTier(InlineTarget(raw), paths)
                          IN  first # {} => ResolveMarkdownLink(raw, idx) \in first

HasDirectoryPrefix(target) == \E i \in 1..Len(target) : target[i] = "/"

\* C12: an inline reference whose destination has a directory prefix and
\* matches no known path gives an edge to a note whose display name equals
\* the final path segment, without its '.md', case-insensitively.
C12_FilenameFallback ==
    \A t \in Threads :
        Built(t) =>
            LET g == th[t].g
                paths == ListedPaths(g)
            IN  \A p \in paths :
                    \A raw \in Range(FindMarkdownLinks(ContentOf(p), 1)) :
                        LET target == InlineTarget(raw)
                            named == {q \in paths :
                                         lower(DisplayName(q))
                                             = lower(WithoutMd(FinalSegment(target)))}
                        IN  (/\ HasDirectoryPrefix(target)
                             /\ \A k \in 1..4 : TierMatches(k, target, paths) = {}
                             /\ named # {}
                             /\ p \notin named)
                                => \E e \in Range(g.edges) :
                                       e.source = p /\ e.target \in named

\* C13: in every graph a build returns, the source and the target of every
\* edge are ids of nodes of that graph, the paths of listed notes.
C13_EdgesJoinNodes ==
    \A t \in Threads :
        Built(t) =>
            \A e \in Range(th[t].g.edges) :
                /\ e.source \in NodeIds(th[t].g) \cap ListedPaths(th[t].g)
                /\ e.target \in NodeIds(th[t].g) \cap ListedPaths(th[t].g)

\* C14: no graph a build returns holds an edge from a note to itself.
C14_NoSelfEdges ==
    \A t \in Threads :
        Built(t) => \A e \in Range(th[t].g.edges) : e.source # e.target

\* a build has returned for a note that names itself in a bracketed and in
\* an inline reference
C14_Witness ==
    /\ Built(1)
    /\ LET idx == BuildIndex(th[1].g.notes, EmptyIndex)
       IN  \E p \in ListedPaths(th[1].g) :
               /\ \E raw \in Range(FindWikilinks(ContentOf(p), 1)) :
                      ResolveWikilink(raw, idx) = p
               /\ \E raw \in Range(FindMarkdownLinks(ContentOf(p), 1)) :
                      ResolveMarkdownLink(raw, idx) = p

\* the bracketed references of note p that resolve to note q
WikilinksTo(p, q, idx) ==
    {i \in 1..Len(FindWikilinks(ContentOf(p), 1)) :
        ResolveWikilink(FindWikilinks(ContentOf(p), 1)[i], idx) = q}

\* the inline references of note p that resolve to note q
MarkdownLinksTo(p, q, idx) ==
    {i \in 1..Len(FindMarkdownLinks(ContentOf(p), 1)) :
        ResolveMarkdownLink(FindMarkdownLinks(ContentOf(p), 1)[i], idx) = q}

\* C15: the edge list holds at most one edge for each (source, target), and
\* its kind is the kind of the reference the build came to first: the
\* bracketed references of a note come before its inline references.
C15_OneEdgePerPair ==
    \A t \in Threads :
        Built(t) =>
            LET edges == th[t].g.edges
                idx == BuildIndex(th[t].g.notes, EmptyIndex)
            IN  /\ \A i, j \in 1..Len(edges) :
                       (edges[i].source = edges[j].source
                            /\ edges[i].target = edges[j].target) => i = j
                /\ \A e \in Range(edges) :
                       e.type = IF WikilinksTo(e.source, e.target, idx) # {}
                                THEN "wikilink" ELSE "markdown"

\* a build has returned for a note that names another note in an inline
\* reference and in two bracketed references
C15_Witness ==
    /\ Built(1)
    /\ LET idx == BuildIndex(th[1].g.notes, EmptyIndex)
       IN  \E p, q \in ListedPaths(th[1].g) :
               /\ p # q
               /\ Cardinality(WikilinksTo(p, q, idx)) >= 2
               /\ MarkdownLinksTo(p, q, idx) # {}
               /\ \E e \in Range(th[1].g.edges) : e.source = p /\ e.target = q

\* C16 as stated: edges are deduplicated by the unordered pair: a graph
\* never holds both an edge from A to B and an edge from B to A.
C16_UnorderedDedup ==
    \A t \in Threads :
        Built(t) =>
            \A e1, e2 \in Range(th[t].g.edges) :
                ~(e1.source = e2.target /\ e1.target = e2.source)

\* C16 amended: edges are deduplicated by the ordered pair: a note that
\* refers to another note has exactly one edge to it, whatever refers back.
C16_OrderedDedup ==
    \A t \in Threads :
        Built(t) =>
            LET edges == th[t].g.edges
                idx == BuildIndex(th[t].g.notes, EmptyIndex)
            IN  \A p, q \in ListedPaths(th[t].g) :
                    (p # q /\ WikilinksTo(p, q, idx) \cup MarkdownLinksTo(p, q, idx) # {})
                        => Cardinality({i \in 1..Len(edges) :
                                           edges[i].source = p /\ edges[i].target = q}) = 1

\* a build has returned for two notes that refer to each other
C16_Witness ==
    /\ Built(1)
    /\ \E e1, e2 \in Range(th[1].g.edges) :
           e1.source = e2.target /\ e1.target = e2.source

----------------------------------------------------------------------------
(* The folders of the store *)

\* utils.py lines 56-68: the directories rglob("*") finds, as paths relative
\* to the root, without those whose relative path starts with "."; sorted()
\* orders strings by the code points of their characters
get_all_folders(f) ==
    LET ord(c) == CHOOSE i \in 1..Len(Ascii) : Ascii[i] = c
        RECURSIVE str_lt(_, _)
        str_lt(a, b) ==
            IF b = <<>> THEN FALSE
            ELSE IF a = <<>> THEN TRUE
            ELSE IF Head(a) = Head(b) THEN str_lt(Tail(a), Tail(b))
            ELSE ord(Head(a)) < ord(Head(b))
        RECURSIVE insert(_, _)
        insert(s, e) ==
            IF s = <<>> THEN <<e>>
            ELSE IF str_lt(e, Head(s)) THEN <<e>> \o s
            ELSE <<Head(s)>> \o insert(Tail(s), e)
        RECURSIVE sorted(_)
        sorted(S) ==
            IF S = {} THEN <<>>
            ELSE LET e == CHOOSE x \in S : TRUE IN insert(sorted(S \ {e}), e)
        items == {loc \in DOMAIN f : IsPrefix(NotesDir, loc) /\ loc # NotesDir}
        dirs == {loc \in items : f[loc].kind = "dir"}
        paths == {as_posix(SubSeq(loc, Len(NotesDir) + 1, Len(loc))) : loc \in dirs}
        folders == {folder_path \in paths :
                       folder_path # <<>> /\ ~startswith(folder_path, <<".">>)}
    IN  [fs |-> f,
         res |-> [tag |-> "list", val |-> sorted(folders), exc |-> "", at |-> 68]]

\* create_folder called with paths that hold a name beginning with "."
CreateDotFolder ==
    \E p \in {<<"a", "/", ".", "h">>, <<".", "g">>, <<".", "g", "/", "b">>} :
        Call("create_folder", <<p>>, create_folder(fs, p))

GetAllFolders == Call("get_all_folders", <<>>, get_all_folders(fs))

NextFolders ==
    \/ CreateFolder
    \/ CreateDotFolder
    \/ SaveNote
    \/ GetAllFolders
    \/ Return

SpecFolders == Init /\ [][NextFolders]_vars

\* a before b in the lexicographic order of the code points
LexLess(a, b) ==
    LET code(c) == CHOOSE i \in 1..Len(Ascii) : Ascii[i] = c
    IN  \/ Len(a) < Len(b) /\ SubSeq(b, 1, Len(a)) = a
        \/ \E i \in 1..Len(a) :
              /\ i <= Len(b)
              /\ SubSeq(a, 1, i - 1) = SubSeq(b, 1, i - 1)
              /\ code(a[i]) < code(b[i])

\* the path of location loc relative to the storage root
RelativePath(loc) == as_posix(SubSeq(loc, Len(NotesDir) + 1, Len(loc)))

\* the directories below the storage root whose own name does not begin
\* with "."
VisibleFolders(f) ==
    {loc \in DOMAIN f : /\ IsPrefix(NotesDir, loc) /\ loc # NotesDir
                        /\ f[loc].kind = "dir"
                        /\ Head(PathName(loc)) # "."}

\* C17: get_all_folders returns, in lexicographic order, exactly the
\* directories below the storage root at any depth whose own name does not
\* begin with ".".
C17_AllFolders ==
    last.op = "get_all_folders"
        => LET val == last.res.val
           IN  /\ last.res.tag = "list"
               /\ Range(val) = {RelativePath(loc) : loc \in VisibleFolders(fs)}
               /\ \A i \in 1..(Len(val) - 1) : LexLess(val[i], val[i + 1])

\* the folders a call moves: the folder a move that succeeded was called on
MovedFolder(f, c) ==
    IF /\ c.op \in {"move_note", "move_folder", "rename_folder"}
       /\ c.res.tag = "True"
       /\ is_dir(f, FullPath(c.args[1]))
    THEN {Stat(f, FullPath(c.args[1])).loc}
    ELSE {}

\* C18: delete_note, move_note, move_folder and rename_folder remove no
\* folder but the folder a move was called on, with what lies below it:
\* when such a call changes the tree, every other folder is still there
\* after the call and still in the result of get_all_folders.
C18_FoldersStay ==
    [][(/\ last'.op \in {"delete_note", "move_note", "move_folder", "rename_folder"}
        /\ fs' # fs)
          => LET moved == MovedFolder(fs, last')
                 stays(loc) == \A m \in moved : ~IsPrefix(m, loc)
                 before == Range(get_all_folders(fs).res.val)
                 after == Range(get_all_folders(fs').res.val)
             IN  /\ \A loc \in DOMAIN fs :
                        (fs[loc].kind = "dir" /\ stays(loc))
                            => loc \in DOMAIN fs' /\ fs'[loc].kind = "dir"
                 /\ \A loc \in VisibleFolders(fs) :
                        (stays(loc) /\ RelativePath(loc) \in before)
                            => RelativePath(loc) \in after]_vars

\* the last note of a folder was deleted: the folder is empty and listed
C18_Witness ==
    /\ last.op = "delete_note"
    /\ last.res.tag = "True"
    /\ LET dir == Parent(resolve(FullPath(last.args[1])))
       IN  /\ dir # NotesDir
           /\ IsPrefix(NotesDir, dir)
           /\ is_dir(fs, dir)
           /\ Children(fs, dir) = {}
           /\ RelativePath(dir) \in Range(get_all_folders(fs).res.val)

\* C19: an upload that succeeds is stored as a new file: it takes the place
\* of no file that was there before it, also when an earlier upload had the
\* same filename within the same second.
C19_UploadsDistinct ==
    [][(last'.op = "save_uploaded_image" /\ last'.res.tag = "str")
          => /\ Stat(fs', FullPath(last'.res.val)).loc \notin DOMAIN fs
             /\ \A loc \in DOMAIN fs : loc \in DOMAIN fs' /\ fs'[loc] = fs[loc]]_vars

\* C20: create_folder on a folder of the store that exists returns True and
\* changes nothing, and a second call with the same path has the result of
\* the first and leaves the tree the first call left.
C20_CreateFolderIdempotent ==
    [][last'.op = "create_folder"
          => /\ (/\ is_dir(fs, FullPath(last'.args[1]))
                 /\ validate_path_security(FullPath(last'.args[1])))
                  => last'.res.tag = "True" /\ fs' = fs
             /\ LET again == create_folder(fs', last'.args[1])
                IN  again.fs = fs' /\ again.res = last'.res]_vars

\* create_folder returned True for a folder that holds something
C20_Witness ==
    /\ last.op = "create_folder"
    /\ last.res.tag = "True"
    /\ FullPath(last.args[1]) # NotesDir
    /\ is_dir(fs, FullPath(last.args[1]))
    /\ Children(fs, Stat(fs, FullPath(last.args[1])).loc) # {}

----------------------------------------------------------------------------
(* The order of the containment check and the filesystem accesses *)

\* a caller starts get_note_content or delete_note, step by step, on a note
\* of the store, on the file outside the root, or on a path outside the
\* root that names nothing
BeginGuardedCall(t) ==
    \E p \in {P_n_md, P_up_o_md, <<".", ".", "/", "x", ".", "m", "d">>},
       o \in {<<"get_note_content", "gn_exists">>, <<"delete_note", "dn_exists">>} :
        Begin(t, o[1], <<p>>, o[2])

\* an upload under a file name with a space in its extension, with no base
\* name, with a '/' after its last dot, or with a space in its base name
SaveNamedImage ==
    \E p \in {P_n_md, P_a_n_md},
       n \in {<<"x", ".", "p", " ", "g">>, <<".", "p", "n", "g">>,
              <<"a", ".", "b", "/", "c">>, <<"m", " ", "p", ".", "p", "n", "g">>} :
        Call("save_uploaded_image", <<p, n, <<"D">>, <<"1">>>>,
             save_uploaded_image(fs, p, n, <<"D">>, <<"1">>))

NextGuard ==
    \/ BeginGuardedCall(1)
    \/ GnExists(1)
    \/ GnIsFile(1)
    \/ GnOpen(1)
    \/ GnRead(1)
    \/ DnExists(1)
    \/ DnUnlink(1)
    \/ Finish(1)
    \/ SaveNote
    \/ SaveUploadedImage
    \/ SaveNamedImage
    \/ Return

SpecGuard == Init /\ [][NextGuard]_vars

\* the call of thread t is at its first step and its path fails the check
AtFirstStepOutside(t) ==
    /\ th[t].pc \in {"gn_exists", "dn_exists"}
    /\ ~validate_path_security(FullPath(th[t].args[1]))

\* C21: the containment check is evaluated before the first filesystem
\* access on the candidate path, existence probes and directory creation
\* included, and the operation stops there when the check fails: the first
\* step of a get_note_content or delete_note whose path fails the check is
\* the return from the check, and a save_uploaded_image that fails the
\* check has created no directory.
C21_CheckBeforeAccess ==
    [][/\ \A t \in Threads :
            (AtFirstStepOutside(t) /\ th'[t] # th[t])
                => th'[t].pc = "done" /\ th'[t].res.at \in {194, 230}
       /\ (last'.op = "save_uploaded_image" /\ last # last'
               /\ ~validate_path_security(get_attachment_dir(last'.args[1])))
            => fs' = fs]_vars

----------------------------------------------------------------------------
(* backend/main.py: the handlers of the move requests and of the note save *)

\* the response with a body, sent from the return at line at
Reply(message, at) == [tag |-> "dict", val |-> <<message>>, exc |-> "", at |-> at]

\* lines 649-669 and their twins at 683-697 and 711-725, out being what the
\* store function did: 'success, error_msg = <result>' unpacks only a pair,
\* and a bool raises TypeError, caught with every other exception by the
\* 'except Exception' that raises HTTPException(500); update_token_path
\* (line 655) runs only below a result that was unpacked and is true
move_response(out, fail_at, ok_at, err_at) ==
    IF out.res.tag = "raise" THEN [fs |-> out.fs, res |-> Raise("HTTPException", err_at)]
    ELSE IF out.res.tag # "pair" THEN [fs |-> out.fs, res |-> Raise("HTTPException", err_at)]
    ELSE IF out.res.val[1] # "True" THEN [fs |-> out.fs, res |-> Raise("HTTPException", fail_at)]
    ELSE [fs |-> out.fs, res |-> Reply("moved", ok_at)]

move_note_endpoint(f, old_path, new_path) ==
    IF old_path = <<>> \/ new_path = <<>>
    THEN [fs |-> f, res |-> Raise("HTTPException", 647)]
    ELSE move_response(move_note(f, old_path, new_path), 652, 660, 669)

move_folder_endpoint(f, old_path, new_path) ==
    IF old_path = <<>> \/ new_path = <<>>
    THEN [fs |-> f, res |-> Raise("HTTPException", 681)]
    ELSE move_response(move_folder(f, old_path, new_path), 686, 688, 697)

rename_folder_endpoint(f, old_path, new_path) ==
    IF old_path = <<>> \/ new_path = <<>>
    THEN [fs |-> f, res |-> Raise("HTTPException", 709)]
    ELSE move_response(rename_folder(f, old_path, new_path), 714, 716, 725)

\* lines 932-970; the two hooks belong to the plugin layer and may hand
\* back any content: transformed_content is what they made of the request's
\* content, and the before-create hook runs exactly when is_new_note
create_or_update_note(f, note_path, transformed_content) ==
    LET existing_content == get_note_content(f, note_path)
        is_new_note == existing_content.res.tag = "None"
        out == save_note(f, note_path, transformed_content)
    IN  IF existing_content.res.tag = "raise"
        THEN [fs |-> f, res |-> Raise("HTTPException", 970)]
        ELSE IF out.res.tag = "raise"
        THEN [fs |-> out.fs, res |-> Raise("HTTPException", 970)]
        ELSE IF out.res.tag # "True"
        THEN [fs |-> out.fs, res |-> Raise("HTTPException", 959)]
        ELSE [fs |-> out.fs,
              res |-> Reply(IF is_new_note THEN "Note created successfully"
                            ELSE "Note saved successfully", 961)]

\* a POST to /api/notes/move, /api/folders/move or /api/folders/rename
PostMove ==
    \E p, q \in {P_n_md, P_a, P_a_n_md, P_a_b, P_up_o_md, P_empty} :
        \/ Call("move_note_endpoint", <<p, q>>, move_note_endpoint(fs, p, q))
        \/ Call("move_folder_endpoint", <<p, q>>, move_folder_endpoint(fs, p, q))
        \/ Call("rename_folder_endpoint", <<p, q>>, rename_folder_endpoint(fs, p, q))

\* a POST to /api/notes/{note_path}
PostNote ==
    \E p \in NotePathArgs, c \in Contents :
        Call("create_or_update_note", <<p, c>>, create_or_update_note(fs, p, c))

NextApi ==
    \/ PostMove
    \/ PostNote
    \/ CreateFolder
    \/ Return

SpecApi == Init /\ [][NextApi]_vars

\* what the store function under a move request does on filesystem f
Underlying(f, op, args) ==
    CASE op = "move_note_endpoint" -> move_note(f, args[1], args[2])
      [] op = "move_folder_endpoint" -> move_folder(f, args[1], args[2])
      [] op = "rename_folder_endpoint" -> rename_folder(f, args[1], args[2])

\* C22: the move handlers report success exactly when the underlying move
\* was performed and an error exactly when it was not; no request ends with
\* the note or folder moved on disk and an error response.
C22_MoveReported ==
    [][(last # last' /\ last'.op \in {"move_note_endpoint", "move_folder_endpoint",
                                         "rename_folder_endpoint"})
          => LET performed == /\ last'.args[1] # <<>> /\ last'.args[2] # <<>>
                              /\ Underlying(fs, last'.op, last'.args).res.tag = "True"
             IN  (last'.res.tag = "dict") <=> performed]_vars

\* the file save_note writes for note_path
WrittenFile(note_path) ==
    IF endswith(note_path, MdSuffix) THEN FullPath(note_path)
    ELSE with_suffix_md(FullPath(note_path))

\* C23: create_or_update_note reports 'Note created successfully' (and runs
\* the before-create transform) exactly when no note was stored, before the
\* call, at the file the write goes to; a second save to the same note,
\* with or without '.md' in the request path, is reported as saved.
C23_CreatedIffNew ==
    [][(last # last' /\ last'.op = "create_or_update_note" /\ last'.res.tag = "dict")
          => (last'.res.val = <<"Note created successfully">>
                <=> ~is_file(fs, WrittenFile(last'.args[1])))]_vars

----------------------------------------------------------------------------
(* Claims about the folder operations (Spec) *)

\* the nodes of the subfolder of the root that path p names on f: none when
\* p names nothing, the root itself or something outside the root
NamedSubfolder(f, p) ==
    LET s == Stat(f, FullPath(p))
    IN  IF s.err = "" /\ s.loc # NotesDir /\ IsPrefix(NotesDir, s.loc)
        THEN {l \in DOMAIN f : IsPrefix(s.loc, l)}
        ELSE {}

\* C24: delete_folder never removes the storage root itself: for every
\* folder path, '' and paths that resolve to the root included, the root
\* and everything outside the named subfolder are still there, unchanged,
\* after the call.
C24_RootSurvives ==
    [][(last # last' /\ last'.op = "delete_folder")
          => \A l \in DOMAIN fs \ NamedSubfolder(fs, last'.args[1]) :
                l \in DOMAIN fs' /\ fs'[l] = fs[l]]_vars

\* C25: a move_folder that does not complete the move (it returns False or
\* raises) leaves the directory tree exactly as it was; a move to a
\* destination inside the source creates no directory.
C25_FailedMoveChangesNothing ==
    [][(last # last' /\ last'.op = "move_folder" /\ last'.res.tag # "True")
          => fs' = fs]_vars

----------------------------------------------------------------------------
(* A move_folder, step by step, beside other callers of the store *)

\* utils.py lines 98-112: the check of the two paths, the source is a
\* directory, the destination does not exist
MfExists(t) ==
    /\ th[t].pc = "mf_exists"
    /\ LET old_full_path == FullPath(th[t].args[1])
           new_full_path == FullPath(th[t].args[2])
       IN  th' = [th EXCEPT ![t] =
                IF ~validate_path_security(old_full_path)
                       \/ ~validate_path_security(new_full_path)
                THEN Done(@, Ret("False", 105))
                ELSE IF ~exists(fs, old_full_path) \/ ~is_dir(fs, old_full_path)
                THEN Done(@, Ret("False", 108))
                ELSE IF exists(fs, new_full_path)
                THEN Done(@, Ret("False", 112))
                ELSE [@ EXCEPT !.pc = "mf_mkdir"]]
    /\ UNCHANGED <<fs, last>>

\* line 115: new_full_path.parent.mkdir(parents=True, exist_ok=True)
MfMkdir(t) ==
    /\ th[t].pc = "mf_mkdir"
    /\ LET m == mkdir_parents(fs, Parent(FullPath(th[t].args[2])))
       IN  /\ Fits(m.fs)
           /\ fs' = m.fs
           /\ th' = [th EXCEPT ![t] =
                    IF m.exc # "" THEN Done(@, Raise(m.exc, 115))
                    ELSE [@ EXCEPT !.pc = "mf_move"]]
    /\ UNCHANGED last

\* lines 118-122: shutil.move(str(old_full_path), str(new_full_path)); a
\* source that is gone by now makes it raise FileNotFoundError
MfMove(t) ==
    /\ th[t].pc = "mf_move"
    /\ LET old_full_path == FullPath(th[t].args[1])
           new_full_path == FullPath(th[t].args[2])
           r == IF ~exists(fs, old_full_path)
                THEN [fs |-> fs, exc |-> "FileNotFoundError"]
                ELSE shutil_move(fs, old_full_path, new_full_path)
       IN  /\ fs' = r.fs
           /\ th' = [th EXCEPT ![t] =
                    IF r.exc # "" THEN Done(@, Raise(r.exc, 118))
                    ELSE Done(@, Ret("True", 122))]
    /\ UNCHANGED last

BeginMoveFolder(t) ==
    \E p, q \in {P_a, P_n, P_a_b} : Begin(t, "move_folder", <<p, q>>, "mf_exists")

\* another caller creates a folder or saves a note in one
CreateBeside ==
    \/ \E p \in {P_a, P_n} : Call("create_folder", <<p>>, create_folder(fs, p))
    \/ Call("save_note", <<P_a_n_md, <<"A", "A">>>>, save_note(fs, P_a_n_md, <<"A", "A">>))

NextMoveFolder ==
    \/ \E t \in Threads :
          \/ BeginMoveFolder(t)
          \/ MfExists(t)
          \/ MfMkdir(t)
          \/ MfMove(t)
          \/ Finish(t)
    \/ CreateBeside
    \/ Return

SpecMoveFolder == Init /\ [][NextMoveFolder]_vars

\* the tree below loc on f, by the paths from loc
TreeAt(f, loc) ==
    {<<SubSeq(l, Len(loc) + 1, Len(l)), f[l]>> : l \in {x \in DOMAIN f : IsPrefix(loc, x)}}

\* C26: when the destination is created by another caller between
\* move_folder's destination-exists check and its move step, move_folder
\* still never merges: a move that completes leaves at the destination path
\* exactly the tree the source was, not the source inside a folder that
\* somebody else created there.
C26_NeverMerges ==
    [][\A t \in Threads :
          (th[t].pc = "mf_move" /\ th'[t].pc = "done" /\ th'[t].res.tag = "True")
             => LET src == Stat(fs, FullPath(th[t].args[1])).loc
                    dst == Stat(fs', FullPath(th[t].args[2]))
                IN  dst.err = "" /\ TreeAt(fs', dst.loc) = TreeAt(fs, src)]_vars

----------------------------------------------------------------------------
(* A save_note that overwrites a note and a reader of the note *)

NextSaveRead ==
    \/ BeginSaveNote(1)
    \/ SnMkdir(1)
    \/ SnOpen(1)
    \/ SnWrite(1)
    \/ Finish(1)
    \/ BeginGetNoteContent(2)
    \/ GnExists(2)
    \/ GnIsFile(2)
    \/ GnOpen(2)
    \/ GnRead(2)
    \/ Finish(2)

SpecSaveRead == InitMoveRead /\ [][NextSaveRead]_vars

\* C27: a get_note_content that runs beside a save_note overwriting an
\* existing note returns the complete old content or the complete new
\* content, never an empty or truncated one: every content a reader is
\* handed is one that was saved, whole.
C27_ReadIsOldOrNew ==
    \A t \in Threads :
        (th[t].op = "get_note_content" /\ th[t].pc = "done" /\ th[t].res.tag = "str")
            => th[t].res.val \in CompleteContents

----------------------------------------------------------------------------
(* Claims about references that only a note's name resolves (SpecLinks) *)

\* the positions in the listing of the notes whose display name is name,
\* compared without case
SameNamed(g, name) ==
    {i \in 1..Len(g.notes) : lower(DisplayName(g.notes[i].path)) = lower(name)}

\* the index misses the path tiers for target and holds its name
ByNameTier(target, idx) ==
    /\ target \notin idx.note_paths
    /\ (target \o MdSuffix) \notin idx.note_paths
    /\ lower(target) \notin DOMAIN idx.note_paths_lower
    /\ (lower(target) \o MdSuffix) \notin DOMAIN idx.note_paths_lower

\* the note a reference by name must resolve to: r is the last of the
\* same-named notes in the listing, none of them was changed earlier, and
\* the edge from p to it is in the graph
LastListed(g, p, name, r) ==
    LET same == SameNamed(g, name)
        lst == CHOOSE i \in same : \A j \in same : j <= i
    IN  Cardinality(same) >= 2
            => /\ r = g.notes[lst].path
               /\ \A j \in same : g.modified[lst] <= g.modified[j]
               /\ r # p => \E e \in Range(g.edges) : e.source = p /\ e.target = r

\* C28: when two or more notes in different folders share a display name,
\* compared without case, a reference resolved by the name-only tier
\* resolves to the one inserted last into the name index, the last of them
\* in get_all_notes order, which is the least recently modified; so the
\* edge follows the modification times.
C28_NameTierLastListed ==
    \A t \in Threads :
        Built(t) =>
            LET g == th[t].g
                idx == BuildIndex(g.notes, EmptyIndex)
            IN  \A p \in ListedPaths(g) :
                    /\ \A raw \in Range(FindWikilinks(ContentOf(p), 1)) :
                          (ByNameTier(strip(raw), idx)
                               /\ lower(strip(raw)) \in DOMAIN idx.note_names)
                            => LastListed(g, p, strip(raw), ResolveWikilink(raw, idx))
                    /\ \A raw \in Range(FindMarkdownLinks(ContentOf(p), 1)) :
                          LET target == InlineTarget(raw)
                          IN  (ByNameTier(target, idx)
                                   /\ lower(FinalSegment(target)) \in DOMAIN idx.note_names)
                                => LastListed(g, p, FinalSegment(target),
                                              ResolveMarkdownLink(raw, idx))

\* a build has resolved a bracketed reference by name among two notes of
\* that name, to the one changed strictly earlier than the other
C28_Witness ==
    /\ Built(1)
    /\ LET g == th[1].g
           idx == BuildIndex(g.notes, EmptyIndex)
       IN  \E p \in ListedPaths(g) :
               \E raw \in Range(FindWikilinks(ContentOf(p), 1)) :
                   /\ ByNameTier(strip(raw), idx)
                   /\ Cardinality(SameNamed(g, strip(raw))) >= 2
                   /\ \E i, j \in SameNamed(g, strip(raw)) :
                         /\ g.modified[i] < g.modified[j]
                         /\ ResolveWikilink(raw, idx) = g.notes[i].path
                   /\ \E e \in Range(g.edges) :
                         e.source = p /\ e.target = ResolveWikilink(raw, idx)

----------------------------------------------------------------------------
(* Claims about the inline references the link extractor keeps (SpecLinks) *)

\* destination d is a URL with a scheme and an authority: letters, then '://'
IsExternalUrl(d) ==
    \E i \in 2..(Len(d) - 2) :
        /\ d[i] = ":" /\ d[i + 1] = "/" /\ d[i + 2] = "/"
        /\ \A k \in 1..(i - 1) : lower_char(d[k]) \in Range(LowerCase)

\* C29: the link extractor returns an inline reference only for a
\* destination that does not begin with 'http://', 'https://', 'mailto:',
\* '#' or 'data:'; of each one kept, the part from the first '#' on is
\* removed, then percent-encoding is decoded, then one leading './' is
\* removed, and a destination left empty produces no reference; no
\* destination that is an external URL produces an edge.
C29_InlineReferences ==
    \A t \in Threads :
        Built(t) =>
            LET g == th[t].g
                paths == ListedPaths(g)
                idx == BuildIndex(g.notes, EmptyIndex)
            IN  \A p \in paths :
                    \A raw \in Range(FindMarkdownLinks(ContentOf(p), 1)) :
                        LET r == ResolveMarkdownLink(raw, idx)
                            first == FirstTier(InlineTarget(raw), paths)
                        IN  /\ \A x \in ExternalPrefixes : ~startswith(raw, x)
                            /\ first # {} => r \in first
                            /\ InlineTarget(raw) = <<>> => r = <<>>
                            /\ IsExternalUrl(raw) => r = <<>>

----------------------------------------------------------------------------
(* Claims about the name an attachment is stored under (SpecGuard) *)

\* C30: the name under which save_uploaded_image stores an attachment is
\* the sanitized base name, then '-', then the timestamp, then the
\* extension; it is a single path component directly in the attachments
\* directory of the note's folder; and apart from the dot before the
\* extension every character of it is alphanumeric, a dash or an
\* underscore, for every original filename.
C30_StoredName ==
    (last.op = "save_uploaded_image" /\ last.res.tag = "str")
        => LET pieces == split(last.res.val, "/")
               stored == pieces[Len(pieces)]
               sanitized == sanitize_filename(last.args[2])
               dot == rfindDot(stored)
           IN  /\ stored = NameStem(sanitized) \o <<"-">> \o last.args[4]
                               \o NameSuffix(sanitized)
               /\ FullPath(last.res.val) = Append(get_attachment_dir(last.args[1]), stored)
               /\ \A k \in 1..Len(stored) : k # dot => stored[k] \in SafeChars

====
